---------------------------- MODULE Spec2Model ----------------------------
(***************************************************************************)
(* A model of the GPX track splitter: the geodesic distance engine, the    *)
(* input defence layer, the track ingestion pipeline, the segmentation     *)
(* done by the App component and the GPX serialisation.                    *)
(*                                                                         *)
(* Conventions.                                                            *)
(*  - A JavaScript string is a sequence of one-character strings.          *)
(*  - An optional field (elevation?, name?) is a sequence of length 0      *)
(*    (undefined) or 1 (the value).  A nullable state (gpxTrack) likewise. *)
(*  - A function that may throw returns [threw, value]; threw = TRUE is    *)
(*    the exception leaving the function.                                  *)
(*  - Array indices are the code's 0-based indices; the TLA+ sequence      *)
(*    element of index i is s[i + 1].                                      *)
(*  - Coordinates are whole degrees.  Distances are whole kilometres (the  *)
(*    App calls the engine with DistanceUnit.KILOMETERS).                  *)
(***************************************************************************)
EXTENDS Integers, Sequences, FiniteSets, TLC

VARIABLES
    gpxTrack,        \* App: useState<GpxTrack | null>
    boundaries,      \* App: useState<number[]>
    numSegments,     \* App: useState<number>
    isLoading,       \* App: useState<boolean>
    error,           \* App: useState<string | null>
    chartBoundaries, \* ElevationChart: useState<number[]> (<<>> while unmounted)
    pending,         \* number of parseGpxFile promises handleFileSelect awaits
    call,            \* one call of a pure function: its arguments and result
    ingest           \* one run of parseGpxFile: its file, position and outcome

appVars == <<gpxTrack, boundaries, numSegments, isLoading, error,
             chartBoundaries, pending>>

vars == <<gpxTrack, boundaries, numSegments, isLoading, error,
          chartBoundaries, pending, call, ingest>>

----------------------------------------------------------------------------
(* Generic helpers.                                                        *)

Abs(x) == IF x < 0 THEN 0 - x ELSE x

\* Math.sqrt on the model's integers: the integer square root of
\* a * a + b * b, which lies between 0 and |a| + |b|.
ISqrtSumSq(a, b) ==
    IF b = 0 THEN Abs(a)
    ELSE IF a = 0 THEN Abs(b)
    ELSE CHOOSE r \in 0..(Abs(a) + Abs(b)) :
             r * r <= a * a + b * b /\ (r + 1) * (r + 1) > a * a + b * b

Return(v) == [threw |-> FALSE, value |-> v]

Throw(e) == [threw |-> TRUE, value |-> e]

\* Array.prototype.sort((a, b) => a - b): insertion into an ascending list.
RECURSIVE InsertSorted(_, _)
InsertSorted(x, s) ==
    IF s = <<>> THEN <<x>>
    ELSE IF x < Head(s) THEN <<x>> \o s
    ELSE <<Head(s)>> \o InsertSorted(x, Tail(s))

RECURSIVE SortAsc(_)
SortAsc(s) ==
    IF s = <<>> THEN <<>>
    ELSE InsertSorted(s[Len(s)], SortAsc(SubSeq(s, 1, Len(s) - 1)))

----------------------------------------------------------------------------
(* Geodesic distance engine (utils/distance).                              *)

EARTH_RADIUS_KM == 6371

\* The error calculateDistance throws for a coordinate out of range.
DomainError == <<"Error", "coordinate out of range">>

\* The haversine formula.  On integer degrees it is evaluated as
\* radius * (pi / 180) * sqrt(dlat^2 + dlon^2) with pi = 355/113: exact
\* (to the kilometre) along a meridian and along the equator, where the
\* model's tracks lie, and 0 for identical coordinates.
Haversine(lat1, lon1, lat2, lon2) ==
    LET dlat == lat2 - lat1
        dlon == lon2 - lon1
    IN (EARTH_RADIUS_KM * 355 * ISqrtSumSq(100 * dlat, 100 * dlon))
           \div (113 * 180 * 100)

calculateDistance(lat1, lon1, lat2, lon2) ==
    IF lat1 < -90 \/ lat1 > 90 \/ lat2 < -90 \/ lat2 > 90
    THEN Throw(DomainError)
    ELSE IF lon1 < -180 \/ lon1 >= 180 \/ lon2 < -180 \/ lon2 >= 180
    THEN Throw(DomainError)
    ELSE Return(Haversine(lat1, lon1, lat2, lon2))

calculateDistanceBetweenPoints(point1, point2) ==
    calculateDistance(point1.lat, point1.lon, point2.lat, point2.lon)

\* The first loop of findPointAtDistance, from the code's index i on.
\* minDiff = -1 stands for Infinity.  Returns the closest index, or throws.
RECURSIVE FindLoop(_, _, _, _, _, _)
FindLoop(points, targetDistance, i, cumulativeDistance, closestIndex, minDiff) ==
    IF ~(i < Len(points)) THEN Return(closestIndex)
    ELSE
      LET seg == calculateDistanceBetweenPoints(points[i], points[i + 1])
      IN IF seg.threw THEN seg
         ELSE
           LET cum    == cumulativeDistance + seg.value
               diff   == Abs(cum - targetDistance)
               closer == minDiff = -1 \/ diff < minDiff
               ci     == IF closer THEN i ELSE closestIndex
               md     == IF closer THEN diff ELSE minDiff
           IN IF cum >= targetDistance THEN Return(ci)
              ELSE FindLoop(points, targetDistance, i + 1, cum, ci, md)

\* The second loop of findPointAtDistance: the distance up to closestIndex.
RECURSIVE ActualDistance(_, _)
ActualDistance(points, closestIndex) ==
    IF closestIndex < 1 THEN 0
    ELSE ActualDistance(points, closestIndex - 1)
         + calculateDistanceBetweenPoints(points[closestIndex],
                                          points[closestIndex + 1]).value

\* The result object of findPointAtDistance, from what its first loop gave.
FindResult(points, r) ==
    IF r.threw THEN r
    ELSE Return([index |-> r.value,
                 actualDistance |-> ActualDistance(points, r.value)])

findPointAtDistance(points, targetDistance) ==
    IF Len(points) = 0 THEN Return([index |-> 0, actualDistance |-> 0])
    ELSE IF targetDistance <= 0 THEN Return([index |-> 0, actualDistance |-> 0])
    ELSE FindResult(points, FindLoop(points, targetDistance, 1, 0, 0, -1))

\* getCumulativeDistances: the cumulative distance at the code's index i.
RECURSIVE CumulativeAt(_, _)
CumulativeAt(points, i) ==
    IF i < 1 THEN 0
    ELSE CumulativeAt(points, i - 1)
         + calculateDistanceBetweenPoints(points[i], points[i + 1]).value

getCumulativeDistances(points) ==
    IF \E i \in 1..(Len(points) - 1) :
          calculateDistanceBetweenPoints(points[i], points[i + 1]).threw
    THEN Throw(DomainError)
    ELSE Return([i \in 1..Len(points) |-> CumulativeAt(points, i - 1)])

getTotalDistance(points) ==
    IF Len(points) < 2 THEN Return(0)
    ELSE LET c == getCumulativeDistances(points)
         IN IF c.threw THEN c ELSE Return(c.value[Len(points)])

----------------------------------------------------------------------------
(* Characters and regular-expression helpers (String.prototype.replace).   *)

UpperLetters == <<"A", "B", "C", "D", "E", "F", "G", "H", "I", "J", "K", "L", "M",
                  "N", "O", "P", "Q", "R", "S", "T", "U", "V", "W", "X", "Y", "Z">>

LowerLetters == <<"a", "b", "c", "d", "e", "f", "g", "h", "i", "j", "k", "l", "m",
                  "n", "o", "p", "q", "r", "s", "t", "u", "v", "w", "x", "y", "z">>

Digits == {"0", "1", "2", "3", "4", "5", "6", "7", "8", "9"}

Range(s) == {s[i] : i \in DOMAIN s}

\* The regular-expression class \w.
WordChars == Range(UpperLetters) \cup Range(LowerLetters) \cup Digits \cup {"_"}

IsWordChar(c) == c \in WordChars

\* The regular-expression class \s; a control character is written by its name.
IsSpace(c) == c \in {" ", "TAB", "LF", "CR", "VT", "FF"}

\* The class [\x00-\x08\x0B\x0C\x0E-\x1F\x7F] on the model's characters.
IsStrippedControl(c) == c \in {"NUL", "BEL", "VT", "FF", "ESC", "DEL"}

\* String.prototype.toLowerCase on one character.
ToLower(c) ==
    IF c \in Range(UpperLetters)
    THEN LowerLetters[CHOOSE i \in DOMAIN UpperLetters : UpperLetters[i] = c]
    ELSE c

\* Does the literal pat occur in s at (1-based) position i?  ci: the i flag.
MatchAt(s, i, pat, ci) ==
    /\ i + Len(pat) - 1 <= Len(s)
    /\ \A k \in 1..Len(pat) :
          IF ci THEN ToLower(s[i + k - 1]) = ToLower(pat[k])
          ELSE s[i + k - 1] = pat[k]

\* The first position j >= i at which the literal pat occurs, or 0.
NextLiteral(s, i, pat, ci) ==
    IF \E j \in i..Len(s) : MatchAt(s, j, pat, ci)
    THEN CHOOSE j \in i..Len(s) :
             MatchAt(s, j, pat, ci) /\ \A k \in i..(j - 1) : ~MatchAt(s, k, pat, ci)
    ELSE 0

\* s.replace(/pat/g, rep) for a literal pat: leftmost matches, left to right,
\* one pass, the replacement is not rescanned.  m is the next match from i.
RECURSIVE ReplaceFrom(_, _, _, _, _)
ReplaceAt(s, i, m, pat, rep, ci) ==
    IF m = 0 THEN SubSeq(s, i, Len(s))
    ELSE SubSeq(s, i, m - 1) \o rep \o ReplaceFrom(s, m + Len(pat), pat, rep, ci)

ReplaceFrom(s, i, pat, rep, ci) ==
    ReplaceAt(s, i, NextLiteral(s, i, pat, ci), pat, rep, ci)

ReplaceAll(s, pat, rep) == ReplaceFrom(s, 1, pat, rep, FALSE)

ReplaceAllCI(s, pat, rep) == ReplaceFrom(s, 1, pat, rep, TRUE)

\* String.prototype.includes for a literal pat.
Includes(s, pat) == \E i \in 1..(Len(s) + 1) : MatchAt(s, i, pat, FALSE)

IncludesCI(s, pat) == \E i \in 1..(Len(s) + 1) : MatchAt(s, i, pat, TRUE)

\* The end of the longest run of characters of a class starting at i:
\* the first position j >= i whose character is not in the class.
RunEndWord(s, i) ==
    CHOOSE j \in i..(Len(s) + 1) :
        /\ (j = Len(s) + 1 \/ ~IsWordChar(s[j]))
        /\ \A k \in i..(j - 1) : IsWordChar(s[k])

RunEndSpace(s, i) ==
    CHOOSE j \in i..(Len(s) + 1) :
        /\ (j = Len(s) + 1 \/ ~IsSpace(s[j]))
        /\ \A k \in i..(j - 1) : IsSpace(s[k])

\* [^"']* : up to the first quote of either kind.
RunEndNotQuote(s, i) ==
    CHOOSE j \in i..(Len(s) + 1) :
        /\ (j = Len(s) + 1 \/ s[j] \in {"\"", "'"})
        /\ \A k \in i..(j - 1) : s[k] \notin {"\"", "'"}

\* [^"'\s]+ : up to the first quote or white space.
RunEndNotQuoteSpace(s, i) ==
    CHOOSE j \in i..(Len(s) + 1) :
        /\ (j = Len(s) + 1 \/ s[j] \in {"\"", "'"} \/ IsSpace(s[j]))
        /\ \A k \in i..(j - 1) : s[k] \notin {"\"", "'"} /\ ~IsSpace(s[k])

\* /<[^>]*>/ at position i: the position after the match, or 0 for no match.
TagEnd(s, i) ==
    IF s[i] # "<" THEN 0
    ELSE IF \E j \in (i + 1)..Len(s) : s[j] = ">"
    THEN 1 + (CHOOSE j \in (i + 1)..Len(s) :
                 s[j] = ">" /\ \A k \in (i + 1)..(j - 1) : s[k] # ">")
    ELSE 0

\* /on\w+\s*=\s*/i at position i: the position after the match, or 0.
\* The classes \w, \s and "=" are disjoint, so the greedy runs never give
\* characters back.
HandlerHead(s, i) ==
    IF ~MatchAt(s, i, <<"o", "n">>, TRUE) THEN 0
    ELSE LET w == RunEndWord(s, i + 2)
         IN IF w = i + 2 THEN 0
            ELSE LET e == RunEndSpace(s, w)
                 IN IF e > Len(s) \/ s[e] # "=" THEN 0
                    ELSE RunEndSpace(s, e + 1)

\* /on\w+\s*=\s*["'][^"']*["']/i at position i.
QuotedHandlerEnd(s, i) ==
    LET h == HandlerHead(s, i)
    IN IF h = 0 \/ h > Len(s) \/ s[h] \notin {"\"", "'"} THEN 0
       ELSE LET q == RunEndNotQuote(s, h + 1)
            IN IF q > Len(s) THEN 0 ELSE q + 1

\* /on\w+\s*=\s*[^"'\s]+/i at position i.
UnquotedHandlerEnd(s, i) ==
    LET h == HandlerHead(s, i)
    IN IF h = 0 \/ h > Len(s) THEN 0
       ELSE LET q == RunEndNotQuoteSpace(s, h)
            IN IF q = h THEN 0 ELSE q

\* The first position j >= i at which the pattern matches, or 0.
NextTag(s, i) ==
    IF \E j \in i..Len(s) : TagEnd(s, j) # 0
    THEN CHOOSE j \in i..Len(s) :
             TagEnd(s, j) # 0 /\ \A k \in i..(j - 1) : TagEnd(s, k) = 0
    ELSE 0

\* s.replace(/<[^>]*>/g, ''): m is the next match from i.
RECURSIVE StripTagsFrom(_, _)
StripTagsAt(s, i, m) ==
    IF m = 0 THEN SubSeq(s, i, Len(s))
    ELSE SubSeq(s, i, m - 1) \o StripTagsFrom(s, TagEnd(s, m))

StripTagsFrom(s, i) == StripTagsAt(s, i, NextTag(s, i))

StripTags(s) == StripTagsFrom(s, 1)

\* The first position j >= i at which the pattern matches, or 0.
NextQuotedHandler(s, i) ==
    IF \E j \in i..Len(s) : QuotedHandlerEnd(s, j) # 0
    THEN CHOOSE j \in i..Len(s) :
             QuotedHandlerEnd(s, j) # 0 /\ \A k \in i..(j - 1) : QuotedHandlerEnd(s, k) = 0
    ELSE 0

\* s.replace(/on\w+\s*=\s*["'][^"']*["']/gi, ''): m is the next match from i.
RECURSIVE StripQuotedHandlersFrom(_, _)
StripQuotedHandlersAt(s, i, m) ==
    IF m = 0 THEN SubSeq(s, i, Len(s))
    ELSE SubSeq(s, i, m - 1) \o StripQuotedHandlersFrom(s, QuotedHandlerEnd(s, m))

StripQuotedHandlersFrom(s, i) == StripQuotedHandlersAt(s, i, NextQuotedHandler(s, i))

StripQuotedHandlers(s) == StripQuotedHandlersFrom(s, 1)

\* The first position j >= i at which the pattern matches, or 0.
NextUnquotedHandler(s, i) ==
    IF \E j \in i..Len(s) : UnquotedHandlerEnd(s, j) # 0
    THEN CHOOSE j \in i..Len(s) :
             UnquotedHandlerEnd(s, j) # 0 /\ \A k \in i..(j - 1) : UnquotedHandlerEnd(s, k) = 0
    ELSE 0

\* s.replace(/on\w+\s*=\s*[^"'\s]+/gi, ''): m is the next match from i.
RECURSIVE StripUnquotedHandlersFrom(_, _)
StripUnquotedHandlersAt(s, i, m) ==
    IF m = 0 THEN SubSeq(s, i, Len(s))
    ELSE SubSeq(s, i, m - 1) \o StripUnquotedHandlersFrom(s, UnquotedHandlerEnd(s, m))

StripUnquotedHandlersFrom(s, i) == StripUnquotedHandlersAt(s, i, NextUnquotedHandler(s, i))

StripUnquotedHandlers(s) == StripUnquotedHandlersFrom(s, 1)

\* s.replace(/[\x00-\x08\x0B\x0C\x0E-\x1F\x7F]/g, '')
StripControl(s) == SelectSeq(s, LAMBDA c : ~IsStrippedControl(c))

\* String.prototype.trim
Trim(s) ==
    IF \A i \in DOMAIN s : IsSpace(s[i]) THEN <<>>
    ELSE LET a == CHOOSE i \in DOMAIN s :
                     ~IsSpace(s[i]) /\ \A k \in 1..(i - 1) : IsSpace(s[k])
             b == CHOOSE i \in DOMAIN s :
                     ~IsSpace(s[i]) /\ \A k \in (i + 1)..Len(s) : IsSpace(s[k])
         IN SubSeq(s, a, b)

----------------------------------------------------------------------------
(* Input defence layer (utils/security).                                   *)

MAX_FILE_SIZE == 10485760

MAX_POINTS == 50000

MAX_WAYPOINTS == 1000

MAX_TEXT_FIELD_LENGTH == 500

PARSE_TIMEOUT == 10000

\* The steps of sanitizeText after the length limit, in the code's order.
DecodeEntities(s) ==
    LET s1 == ReplaceAll(s,  <<"&", "l", "t", ";">>, <<"<">>)
        s2 == ReplaceAll(s1, <<"&", "g", "t", ";">>, <<">">>)
        s3 == ReplaceAll(s2, <<"&", "a", "m", "p", ";">>, <<"&">>)
        s4 == ReplaceAll(s3, <<"&", "q", "u", "o", "t", ";">>, <<"\"">>)
        s5 == ReplaceAll(s4, <<"&", "#", "x", "2", "7", ";">>, <<"'">>)
        s6 == ReplaceAll(s5, <<"&", "#", "x", "2", "F", ";">>, <<"/">>)
    IN s6

StripDangerous(s) ==
    LET s7  == StripTags(s)
        s8  == ReplaceAllCI(s7, <<"j", "a", "v", "a", "s", "c", "r", "i", "p", "t", ":">>, <<>>)
        s9  == StripQuotedHandlers(s8)
        s10 == StripUnquotedHandlers(s9)
        s11 == ReplaceAllCI(s10, <<"d", "a", "t", "a", ":">>, <<>>)
        s12 == ReplaceAllCI(s11, <<"v", "b", "s", "c", "r", "i", "p", "t", ":">>, <<>>)
    IN s12

\* The length limit without the ellipsis.
LimitLengthNoEllipsis(s) ==
    IF Len(s) > MAX_TEXT_FIELD_LENGTH
    THEN SubSeq(s, 1, MAX_TEXT_FIELD_LENGTH)
    ELSE s

\* The length limit: substring(0, MAX_TEXT_FIELD_LENGTH) + '...'
LimitLength(s) ==
    IF Len(s) > MAX_TEXT_FIELD_LENGTH
    THEN SubSeq(s, 1, MAX_TEXT_FIELD_LENGTH) \o <<".", ".", ".">>
    ELSE s

\* sanitizeText with the entities decoded after the stripping.
sanitizeTextDecodeLast(input) ==
    IF input = <<>> THEN <<>>
    ELSE StripControl(DecodeEntities(StripDangerous(LimitLength(Trim(input)))))

\* input = <<>> stands for null, undefined and the empty string alike.
sanitizeText(input) ==
    IF input = <<>> THEN <<>>
    ELSE StripControl(StripDangerous(DecodeEntities(LimitLength(Trim(input)))))

\* new SecurityError(message, type) and new GpxParseError(message).
SecurityError(message, type) ==
    [name |-> "SecurityError", type |-> type, message |-> message]

GpxParseError(message) ==
    [name |-> "GpxParseError", type |-> "", message |-> message]

\* Any other Error instance (TypeError, DOMException, ...).
OtherError(message) ==
    [name |-> "Error", type |-> "", message |-> message]

\* A thrown value that is not an Error instance (throw 'text', a promise
\* rejected with a plain value); message holds the value's text.
NonErrorValue(text) ==
    [name |-> "NonError", type |-> "", message |-> text]

\* The messages of the layer's errors.  A number the code interpolates
\* (${file.size...}, ${data.points.length}, ${parseTime}) is written N.
MsgFileSize ==
    <<"F", "i", "l", "e", " ", "s", "i", "z", "e", " ", "N", ".", "N", "M",
      "B", " ", "e", "x", "c", "e", "e", "d", "s", " ", "m", "a", "x", "i",
      "m", "u", "m", " ", "a", "l", "l", "o", "w", "e", "d", " ", "s", "i",
      "z", "e", " ", "o", "f", " ", "1", "0", "M", "B", ".", " ", "L", "a",
      "r", "g", "e", " ", "f", "i", "l", "e", "s", " ", "c", "a", "n", " ",
      "c", "a", "u", "s", "e", " ", "b", "r", "o", "w", "s", "e", "r", " ",
      "p", "e", "r", "f", "o", "r", "m", "a", "n", "c", "e", " ", "i", "s",
      "s", "u", "e", "s", " ", "o", "r", " ", "c", "r", "a", "s", "h", "e",
      "s", ".">>

MsgTooManyPoints ==
    <<"T", "r", "a", "c", "k", " ", "c", "o", "n", "t", "a", "i", "n", "s",
      " ", "N", " ", "p", "o", "i", "n", "t", "s", ",", " ", "w", "h", "i",
      "c", "h", " ", "e", "x", "c", "e", "e", "d", "s", " ", "t", "h", "e",
      " ", "m", "a", "x", "i", "m", "u", "m", " ", "a", "l", "l", "o", "w",
      "e", "d", " ", "5", "0", "0", "0", "0", " ", "p", "o", "i", "n", "t",
      "s", ".", " ", "L", "a", "r", "g", "e", " ", "t", "r", "a", "c", "k",
      "s", " ", "c", "a", "n", " ", "c", "a", "u", "s", "e", " ", "b", "r",
      "o", "w", "s", "e", "r", " ", "p", "e", "r", "f", "o", "r", "m", "a",
      "n", "c", "e", " ", "i", "s", "s", "u", "e", "s", ".">>

MsgTooManyWaypoints ==
    <<"T", "r", "a", "c", "k", " ", "c", "o", "n", "t", "a", "i", "n", "s",
      " ", "N", " ", "w", "a", "y", "p", "o", "i", "n", "t", "s", ",", " ",
      "w", "h", "i", "c", "h", " ", "e", "x", "c", "e", "e", "d", "s", " ",
      "t", "h", "e", " ", "m", "a", "x", "i", "m", "u", "m", " ", "a", "l",
      "l", "o", "w", "e", "d", " ", "1", "0", "0", "0", " ", "w", "a", "y",
      "p", "o", "i", "n", "t", "s", ".", " ", "M", "a", "n", "y", " ", "w",
      "a", "y", "p", "o", "i", "n", "t", "s", " ", "c", "a", "n", " ", "s",
      "l", "o", "w", " ", "d", "o", "w", "n", " ", "m", "a", "p", " ", "r",
      "e", "n", "d", "e", "r", "i", "n", "g", ".">>

MsgParseTime ==
    <<"X", "M", "L", " ", "p", "a", "r", "s", "i", "n", "g", " ", "t", "o",
      "o", "k", " ", "N", "m", "s", ",", " ", "w", "h", "i", "c", "h", " ",
      "e", "x", "c", "e", "e", "d", "s", " ", "t", "h", "e", " ", "t", "i",
      "m", "e", "o", "u", "t", " ", "o", "f", " ", "1", "0", "0", "0", "0",
      "m", "s">>

MsgTimedOut ==
    <<"O", "p", "e", "r", "a", "t", "i", "o", "n", " ", "t", "i", "m", "e",
      "d", " ", "o", "u", "t", " ", "a", "f", "t", "e", "r", " ", "1", "0",
      "0", "0", "0", "m", "s", ".", " ", "T", "h", "i", "s", " ", "p", "r",
      "e", "v", "e", "n", "t", "s", " ", "t", "h", "e", " ", "b", "r", "o",
      "w", "s", "e", "r", " ", "f", "r", "o", "m", " ", "f", "r", "e", "e",
      "z", "i", "n", "g", " ", "d", "u", "r", "i", "n", "g", " ", "l", "o",
      "n", "g", " ", "o", "p", "e", "r", "a", "t", "i", "o", "n", "s", ".">>

MsgXxeSystem ==
    <<"X", "M", "L", " ", "c", "o", "n", "t", "a", "i", "n", "s", " ", "S",
      "Y", "S", "T", "E", "M", " ", "e", "n", "t", "i", "t", "y", " ", "r",
      "e", "f", "e", "r", "e", "n", "c", "e", "s", " ", "w", "h", "i", "c",
      "h", " ", "a", "r", "e", " ", "n", "o", "t", " ", "a", "l", "l", "o",
      "w", "e", "d", " ", "f", "o", "r", " ", "s", "e", "c", "u", "r", "i",
      "t", "y", " ", "r", "e", "a", "s", "o", "n", "s">>

MsgXxePublic ==
    <<"X", "M", "L", " ", "c", "o", "n", "t", "a", "i", "n", "s", " ", "P",
      "U", "B", "L", "I", "C", " ", "e", "n", "t", "i", "t", "y", " ", "r",
      "e", "f", "e", "r", "e", "n", "c", "e", "s", " ", "w", "h", "i", "c",
      "h", " ", "a", "r", "e", " ", "n", "o", "t", " ", "a", "l", "l", "o",
      "w", "e", "d", " ", "f", "o", "r", " ", "s", "e", "c", "u", "r", "i",
      "t", "y", " ", "r", "e", "a", "s", "o", "n", "s">>

MsgXxeParameter ==
    <<"X", "M", "L", " ", "c", "o", "n", "t", "a", "i", "n", "s", " ", "p",
      "a", "r", "a", "m", "e", "t", "e", "r", " ", "e", "n", "t", "i", "t",
      "y", " ", "r", "e", "f", "e", "r", "e", "n", "c", "e", "s", " ", "w",
      "h", "i", "c", "h", " ", "a", "r", "e", " ", "n", "o", "t", " ", "a",
      "l", "l", "o", "w", "e", "d", " ", "f", "o", "r", " ", "s", "e", "c",
      "u", "r", "i", "t", "y", " ", "r", "e", "a", "s", "o", "n", "s">>

MsgXxeReference ==
    <<"X", "M", "L", " ", "c", "o", "n", "t", "a", "i", "n", "s", " ", "e",
      "x", "t", "e", "r", "n", "a", "l", " ", "e", "n", "t", "i", "t", "y",
      " ", "r", "e", "f", "e", "r", "e", "n", "c", "e", "s", " ", "w", "h",
      "i", "c", "h", " ", "a", "r", "e", " ", "n", "o", "t", " ", "a", "l",
      "l", "o", "w", "e", "d", " ", "f", "o", "r", " ", "s", "e", "c", "u",
      "r", "i", "t", "y", " ", "r", "e", "a", "s", "o", "n", "s">>

MsgXxeDoctype ==
    <<"X", "M", "L", " ", "D", "O", "C", "T", "Y", "P", "E", " ", "w", "i",
      "t", "h", " ", "e", "x", "t", "e", "r", "n", "a", "l", " ", "r", "e",
      "f", "e", "r", "e", "n", "c", "e", "s", " ", "i", "s", " ", "n", "o",
      "t", " ", "a", "l", "l", "o", "w", "e", "d">>

\* The size check with the limit itself refused.
validateFileSizeInclusive(file) ==
    IF file.size >= MAX_FILE_SIZE
    THEN Throw(SecurityError(MsgFileSize, "PERFORMANCE"))
    ELSE Return(TRUE)

validateFileSize(file) ==
    IF file.size > MAX_FILE_SIZE
    THEN Throw(SecurityError(MsgFileSize, "PERFORMANCE"))
    ELSE Return(TRUE)

\* The data check without its waypoint half.
validateGpxDataPointsOnly(data) ==
    IF Len(data.points) > MAX_POINTS
    THEN Throw(SecurityError(MsgTooManyPoints, "PERFORMANCE"))
    ELSE Return(TRUE)

\* data.waypoints is undefined when the track has no waypoint: an empty
\* sequence here.
validateGpxData(data) ==
    IF Len(data.points) > MAX_POINTS
    THEN Throw(SecurityError(MsgTooManyPoints, "PERFORMANCE"))
    ELSE IF Len(data.waypoints) > 0 /\ Len(data.waypoints) > MAX_WAYPOINTS
    THEN Throw(SecurityError(MsgTooManyWaypoints, "PERFORMANCE"))
    ELSE Return(TRUE)

----------------------------------------------------------------------------
(* Segmentation (App.segments, a useMemo over gpxTrack and boundaries).    *)

\* String.fromCharCode(code) for the codes 65 + i the segment names use.
CharCodes == <<"A", "B", "C", "D", "E", "F", "G", "H", "I", "J", "K", "L", "M",
               "N", "O", "P", "Q", "R", "S", "T", "U", "V", "W", "X", "Y", "Z",
               "[", "backslash", "]", "^", "_", "backtick">>

fromCharCode(code) == CharCodes[code - 64]

\* slice(start, end) taken as if its end index were the last index kept.
SliceEndInclusive(s, start, end) == SubSeq(s, start + 1, end - 1)

\* Array.prototype.slice(start, end) with 0-based start, exclusive end.
Slice(s, start, end) == SubSeq(s, start + 1, end)

\* One step of boundaries.map(distance => findPointAtDistance(...).index):
\* the first call that throws ends the map.
MapIndex(r, rest) ==
    IF r.threw THEN r
    ELSE IF rest.threw THEN rest
    ELSE Return(<<r.value.index>> \o rest.value)

RECURSIVE BoundaryIndices(_, _)
BoundaryIndices(points, bnds) ==
    IF bnds = <<>> THEN Return(<<>>)
    ELSE MapIndex(findPointAtDistance(points, Head(bnds)),
                  BoundaryIndices(points, Tail(bnds)))

\* The forEach over the sorted boundary indices: segment i spans
\* [startIndex, endIndex] where startIndex is the previous endIndex.
RECURSIVE SplitSegments(_, _, _, _)
SplitSegments(track, idx, i, startIndex) ==
    IF i > Len(idx) THEN <<>>
    ELSE <<[name       |-> track.name \o <<"_", fromCharCode(65 + i - 1)>>,
            points     |-> Slice(track.points, startIndex, idx[i] + 1),
            startIndex |-> startIndex,
            endIndex   |-> idx[i],
            waypoints  |-> <<>>]>>
         \o SplitSegments(track, idx, i + 1, idx[i])

\* The final segment, pushed after the forEach: from the last boundary index
\* to the last point.
FinalSegment(track, idx, count) ==
    [name       |-> track.name \o <<"_", fromCharCode(65 + count)>>,
     points     |-> Slice(track.points, IF idx = <<>> THEN 0 ELSE idx[Len(idx)],
                          Len(track.points)),
     startIndex |-> IF idx = <<>> THEN 0 ELSE idx[Len(idx)],
     endIndex   |-> Len(track.points) - 1,
     waypoints  |-> <<>>]

\* The segments of a track for its sorted boundary indices.
SegmentsAt(track, idx) ==
    SplitSegments(track, idx, 1, 0) \o <<FinalSegment(track, idx, Len(idx))>>

\* The multi-segment branch, from what the boundary map gave.
SegmentsFor(track, bi) ==
    IF bi.threw THEN bi ELSE Return(SegmentsAt(track, SortAsc(bi.value)))

\* The single segment, returned without the waypoints of the track.
SingleSegmentNoWaypoints(name, pts, wpts) ==
    [name       |-> name \o <<" ", "-", " ", "S", "e", "g", "m", "e", "n",
                              "t", " ", "1">>,
     points     |-> pts,
     startIndex |-> 0,
     endIndex   |-> (IF Len(pts) = 0 THEN 1 ELSE Len(pts)) - 1,
     waypoints  |-> <<>>]

\* The single segment returned without a track or without boundaries.
SingleSegment(name, pts, wpts) ==
    [name       |-> name \o <<" ", "-", " ", "S", "e", "g", "m", "e", "n", "t",
                              " ", "1">>,
     points     |-> pts,
     startIndex |-> 0,
     endIndex   |-> (IF Len(pts) = 0 THEN 1 ELSE Len(pts)) - 1,
     waypoints  |-> wpts]

segments(trackOpt, bnds) ==
    IF trackOpt = <<>>
    THEN Return(<<SingleSegment(<<"T", "r", "a", "c", "k">>, <<>>, <<>>)>>)
    ELSE IF Len(bnds) = 0
    THEN Return(<<SingleSegment(IF trackOpt[1].name = <<>>
                                THEN <<"T", "r", "a", "c", "k">>
                                ELSE trackOpt[1].name,
                                trackOpt[1].points, trackOpt[1].waypoints)>>)
    ELSE SegmentsFor(trackOpt[1],
                     BoundaryIndices(trackOpt[1].points, bnds))

----------------------------------------------------------------------------
(* The App component: its state and its handlers.                          *)

\* Math.max(...xs) and Math.min(...xs) over a non-empty set.
MaxOf(xs) == CHOOSE x \in xs : \A y \in xs : y <= x

MinOf(xs) == CHOOSE x \in xs : \A y \in xs : x <= y

\* Bounds computed over the points alone.
ComputeBoundsPointsOnly(points, waypoints) ==
    [north |-> MaxOf({points[i].lat : i \in DOMAIN points}),
     south |-> MinOf({points[i].lat : i \in DOMAIN points}),
     east  |-> MaxOf({points[i].lon : i \in DOMAIN points}),
     west  |-> MinOf({points[i].lon : i \in DOMAIN points})]

\* The bounds parseGpxFile computes over all points and all waypoints.
ComputeBounds(points, waypoints) ==
    LET allLats == {points[i].lat : i \in DOMAIN points}
                   \cup {waypoints[i].lat : i \in DOMAIN waypoints}
        allLons == {points[i].lon : i \in DOMAIN points}
                   \cup {waypoints[i].lon : i \in DOMAIN waypoints}
    IN [north |-> MaxOf(allLats), south |-> MinOf(allLats),
        east  |-> MaxOf(allLons), west  |-> MinOf(allLons)]

\* The GpxTrack object parseGpxFile assembles.
MakeTrack(name, points, waypoints) ==
    [name |-> name, points |-> points,
     bounds |-> ComputeBounds(points, waypoints), waypoints |-> waypoints]

\* getErrorMessage(error): the text shown for a rejected parse.
getErrorMessage(err) ==
    IF err.name = "GpxParseError" THEN err.message
    ELSE IF err.name = "SecurityError" THEN
        IF err.type = "PERFORMANCE" THEN
            IF Includes(err.message, <<"F", "i", "l", "e", " ", "s", "i",
                                       "z", "e">>)
            THEN <<"F", "i", "l", "e", " ", "i", "s", " ", "t", "o", "o",
                   " ", "l", "a", "r", "g", "e", ".", " ", "P", "l", "e",
                   "a", "s", "e", " ", "u", "s", "e", " ", "a", " ", "f",
                   "i", "l", "e", " ", "s", "m", "a", "l", "l", "e", "r",
                   " ", "t", "h", "a", "n", " ", "1", "0", "M", "B", " ",
                   "f", "o", "r", " ", "b", "e", "t", "t", "e", "r", " ",
                   "p", "e", "r", "f", "o", "r", "m", "a", "n", "c", "e",
                   ".">>
            ELSE IF Includes(err.message, <<"t", "i", "m", "e", "d", " ",
                                            "o", "u", "t">>)
            THEN <<"F", "i", "l", "e", " ", "p", "r", "o", "c", "e", "s",
                   "s", "i", "n", "g", " ", "t", "i", "m", "e", "d", " ",
                   "o", "u", "t", ".", " ", "P", "l", "e", "a", "s", "e",
                   " ", "t", "r", "y", " ", "a", " ", "s", "m", "a", "l",
                   "l", "e", "r", " ", "f", "i", "l", "e", " ", "o", "r",
                   " ", "c", "h", "e", "c", "k", " ", "y", "o", "u", "r",
                   " ", "d", "e", "v", "i", "c", "e", " ", "p", "e", "r",
                   "f", "o", "r", "m", "a", "n", "c", "e", ".">>
            ELSE IF Includes(err.message, <<"p", "o", "i", "n", "t", "s">>)
            THEN <<"F", "i", "l", "e", " ", "c", "o", "n", "t", "a", "i",
                   "n", "s", " ", "t", "o", "o", " ", "m", "a", "n", "y",
                   " ", "t", "r", "a", "c", "k", " ", "p", "o", "i", "n",
                   "t", "s", ".", " ", "P", "l", "e", "a", "s", "e", " ",
                   "u", "s", "e", " ", "a", " ", "s", "i", "m", "p", "l",
                   "i", "f", "i", "e", "d", " ", "t", "r", "a", "c", "k",
                   " ", "w", "i", "t", "h", " ", "f", "e", "w", "e", "r",
                   " ", "p", "o", "i", "n", "t", "s", ".">>
            ELSE <<"F", "i", "l", "e", " ", "p", "r", "o", "c", "e", "s",
                   "s", "i", "n", "g", " ", "f", "a", "i", "l", "e", "d",
                   " ", "d", "u", "e", " ", "t", "o", " ", "p", "e", "r",
                   "f", "o", "r", "m", "a", "n", "c", "e", " ", "c", "o",
                   "n", "s", "t", "r", "a", "i", "n", "t", "s", ".", " ",
                   "P", "l", "e", "a", "s", "e", " ", "t", "r", "y", " ",
                   "a", " ", "s", "m", "a", "l", "l", "e", "r", " ", "o",
                   "r", " ", "s", "i", "m", "p", "l", "e", "r", " ", "f",
                   "i", "l", "e", ".">>
        ELSE IF err.type = "XXE"
        THEN <<"F", "i", "l", "e", " ", "c", "o", "n", "t", "a", "i", "n",
               "s", " ", "s", "e", "c", "u", "r", "i", "t", "y", " ", "r",
               "i", "s", "k", "s", " ", "a", "n", "d", " ", "c", "a", "n",
               "n", "o", "t", " ", "b", "e", " ", "p", "r", "o", "c", "e",
               "s", "s", "e", "d", ".", " ", "P", "l", "e", "a", "s", "e",
               " ", "e", "n", "s", "u", "r", "e", " ", "t", "h", "e", " ",
               "f", "i", "l", "e", " ", "i", "s", " ", "f", "r", "o", "m",
               " ", "a", " ", "t", "r", "u", "s", "t", "e", "d", " ", "s",
               "o", "u", "r", "c", "e", ".">>
        ELSE IF err.type = "XSS"
        THEN <<"F", "i", "l", "e", " ", "c", "o", "n", "t", "a", "i", "n",
               "s", " ", "p", "o", "t", "e", "n", "t", "i", "a", "l", "l",
               "y", " ", "u", "n", "s", "a", "f", "e", " ", "c", "o", "n",
               "t", "e", "n", "t", " ", "t", "h", "a", "t", " ", "h", "a",
               "s", " ", "b", "e", "e", "n", " ", "b", "l", "o", "c", "k",
               "e", "d", " ", "f", "o", "r", " ", "s", "e", "c", "u", "r",
               "i", "t", "y", " ", "r", "e", "a", "s", "o", "n", "s", ".">>
        ELSE <<"F", "i", "l", "e", " ", "f", "a", "i", "l", "e", "d", " ",
               "s", "e", "c", "u", "r", "i", "t", "y", " ", "v", "a", "l",
               "i", "d", "a", "t", "i", "o", "n", " ", "a", "n", "d", " ",
               "c", "a", "n", "n", "o", "t", " ", "b", "e", " ", "p", "r",
               "o", "c", "e", "s", "s", "e", "d", " ", "s", "a", "f", "e",
               "l", "y", ".">>
    ELSE IF err.name = "Error" THEN
        IF \/ IncludesCI(err.message, <<"n", "e", "t", "w", "o", "r", "k">>)
           \/ IncludesCI(err.message, <<"f", "e", "t", "c", "h">>)
           \/ IncludesCI(err.message, <<"c", "o", "n", "n", "e", "c", "t",
                                        "i", "o", "n">>)
        THEN <<"F", "a", "i", "l", "e", "d", " ", "t", "o", " ", "r", "e",
               "a", "d", " ", "t", "h", "e", " ", "f", "i", "l", "e", ".",
               " ", "P", "l", "e", "a", "s", "e", " ", "c", "h", "e", "c",
               "k", " ", "y", "o", "u", "r", " ", "i", "n", "t", "e", "r",
               "n", "e", "t", " ", "c", "o", "n", "n", "e", "c", "t", "i",
               "o", "n", " ", "a", "n", "d", " ", "t", "r", "y", " ", "a",
               "g", "a", "i", "n", ".">>
        ELSE IF IncludesCI(err.message, <<"m", "e", "m", "o", "r", "y">>)
        THEN <<"N", "o", "t", " ", "e", "n", "o", "u", "g", "h", " ", "m",
               "e", "m", "o", "r", "y", " ", "t", "o", " ", "p", "r", "o",
               "c", "e", "s", "s", " ", "t", "h", "i", "s", " ", "f", "i",
               "l", "e", ".", " ", "P", "l", "e", "a", "s", "e", " ", "t",
               "r", "y", " ", "a", " ", "s", "m", "a", "l", "l", "e", "r",
               " ", "f", "i", "l", "e", " ", "o", "r", " ", "c", "l", "o",
               "s", "e", " ", "o", "t", "h", "e", "r", " ", "a", "p", "p",
               "l", "i", "c", "a", "t", "i", "o", "n", "s", ".">>
        ELSE IF IncludesCI(err.message, <<"t", "i", "m", "e", "o", "u", "t">>)
        THEN <<"F", "i", "l", "e", " ", "p", "r", "o", "c", "e", "s", "s",
               "i", "n", "g", " ", "t", "i", "m", "e", "d", " ", "o", "u",
               "t", ".", " ", "P", "l", "e", "a", "s", "e", " ", "t", "r",
               "y", " ", "a", "g", "a", "i", "n", " ", "o", "r", " ", "u",
               "s", "e", " ", "a", " ", "s", "m", "a", "l", "l", "e", "r",
               " ", "f", "i", "l", "e", ".">>
        ELSE IF IncludesCI(err.message, <<"q", "u", "o", "t", "a">>) \/ IncludesCI(err.message, <<"s",
                                                                               "t",
                                                                               "o",
                                                                               "r",
                                                                               "a",
                                                                               "g",
                                                                               "e">>)
        THEN <<"N", "o", "t", " ", "e", "n", "o", "u", "g", "h", " ", "s",
               "t", "o", "r", "a", "g", "e", " ", "s", "p", "a", "c", "e",
               " ", "a", "v", "a", "i", "l", "a", "b", "l", "e", ".", " ",
               "P", "l", "e", "a", "s", "e", " ", "f", "r", "e", "e", " ",
               "u", "p", " ", "s", "o", "m", "e", " ", "s", "p", "a", "c",
               "e", " ", "a", "n", "d", " ", "t", "r", "y", " ", "a", "g",
               "a", "i", "n", ".">>
        ELSE IF IncludesCI(err.message, <<"p", "e", "r", "m", "i", "s",
                                          "s", "i", "o", "n">>) \/ IncludesCI(err.message, <<"a",
                                                                                    "c",
                                                                                    "c",
                                                                                    "e",
                                                                                    "s",
                                                                                    "s">>)
        THEN <<"P", "e", "r", "m", "i", "s", "s", "i", "o", "n", " ", "d",
               "e", "n", "i", "e", "d", ".", " ", "P", "l", "e", "a", "s",
               "e", " ", "c", "h", "e", "c", "k", " ", "f", "i", "l", "e",
               " ", "p", "e", "r", "m", "i", "s", "s", "i", "o", "n", "s",
               " ", "a", "n", "d", " ", "t", "r", "y", " ", "a", "g", "a",
               "i", "n", ".">>
        ELSE IF Len(err.message) > 10 /\ ~Includes(err.message, <<"u", "n",
                                                                  "d", "e",
                                                                  "f", "i",
                                                                  "n", "e",
                                                                  "d">>)
        THEN <<"F", "i", "l", "e", " ", "p", "r", "o", "c", "e", "s", "s",
               "i", "n", "g", " ", "f", "a", "i", "l", "e", "d", ":", " ">> \o err.message
        ELSE <<"A", "n", " ", "u", "n", "e", "x", "p", "e", "c", "t", "e",
               "d", " ", "e", "r", "r", "o", "r", " ", "o", "c", "c", "u",
               "r", "r", "e", "d", " ", "w", "h", "i", "l", "e", " ", "p",
               "r", "o", "c", "e", "s", "s", "i", "n", "g", " ", "t", "h",
               "e", " ", "f", "i", "l", "e", ".", " ", "P", "l", "e", "a",
               "s", "e", " ", "t", "r", "y", " ", "a", "g", "a", "i", "n",
               " ", "w", "i", "t", "h", " ", "a", " ", "d", "i", "f", "f",
               "e", "r", "e", "n", "t", " ", "f", "i", "l", "e", ".">>
    ELSE <<"A", "n", " ", "u", "n", "e", "x", "p", "e", "c", "t", "e", "d",
           " ", "e", "r", "r", "o", "r", " ", "o", "c", "c", "u", "r", "r",
           "e", "d", " ", "w", "h", "i", "l", "e", " ", "p", "r", "o", "c",
           "e", "s", "s", "i", "n", "g", " ", "t", "h", "e", " ", "f", "i",
           "l", "e", ".", " ", "P", "l", "e", "a", "s", "e", " ", "t", "r",
           "y", " ", "a", "g", "a", "i", "n", " ", "w", "i", "t", "h", " ",
           "a", " ", "d", "i", "f", "f", "e", "r", "e", "n", "t", " ", "f",
           "i", "l", "e", ".">>

\* The messages of parseGpxFile's own errors.
MsgInvalidXml == <<"I", "n", "v", "a", "l", "i", "d", " ", "X", "M", "L",
                   " ", "f", "o", "r", "m", "a", "t", " ", "i", "n", " ",
                   "G", "P", "X", " ", "f", "i", "l", "e">>

MsgNoTracks == <<"N", "o", " ", "t", "r", "a", "c", "k", "s", " ", "f",
                 "o", "u", "n", "d", " ", "i", "n", " ", "G", "P", "X",
                 " ", "f", "i", "l", "e">>

MsgNoValidTrack == <<"N", "o", " ", "v", "a", "l", "i", "d", " ", "t", "r",
                     "a", "c", "k", " ", "d", "a", "t", "a", " ", "f", "o",
                     "u", "n", "d", " ", "i", "n", " ", "G", "P", "X", " ",
                     "f", "i", "l", "e">>

MsgNoPoints == <<"T", "r", "a", "c", "k", " ", "c", "o", "n", "t", "a",
                 "i", "n", "s", " ", "n", "o", " ", "p", "o", "i", "n",
                 "t", "s">>

MsgFailedPrefix == <<"F", "a", "i", "l", "e", "d", " ", "t", "o", " ", "p",
                     "a", "r", "s", "e", " ", "G", "P", "X", " ", "f", "i",
                     "l", "e", ":", " ">>

MsgUnknown == <<"U", "n", "k", "n", "o", "w", "n", " ", "e", "r", "r", "o",
                "r">>

\* Bounds of the App specification.
MaxTrackPoints == 3

MaxBoundaries == 2

MaxPending == 2

SeqsUpTo(S, n) == UNION {[1..k -> S] : k \in 0..n}

\* Latitudes (degrees) of the points of the tracks the App is given.
Lats == {0, 1, 3}

\* Distances (km) the chart reports for a click: the start, a place nearer
\* to the start than to any later point, places on and between points, and
\* a place beyond the end of every track.
ClickDistances == {0, 50, 111, 222, 500}

AppWaypoint == [lat |-> 2, lon |-> 5, elevation |-> <<>>,
                name |-> <<<<"w">>>>, description |-> <<>>, symbol |-> <<>>]

\* A track one of whose points has a longitude outside [-180, 180).
OutOfRangeTrack ==
    MakeTrack(<<"T">>, <<[lat |-> 0, lon |-> 0, elevation |-> <<>>],
                      [lat |-> 1, lon |-> 180, elevation |-> <<>>],
                      [lat |-> 2, lon |-> 0, elevation |-> <<>>]>>, <<>>)

\* A track that carries a waypoint.
WaypointTrack ==
    MakeTrack(<<"T">>, <<[lat |-> 0, lon |-> 0, elevation |-> <<>>],
                      [lat |-> 1, lon |-> 0, elevation |-> <<>>]>>,
              <<AppWaypoint>>)

\* The track of a file named '.gpx' whose <trk> has no name: its name is
\* the empty string.
UnnamedTrack ==
    MakeTrack(<<>>, <<[lat |-> 0, lon |-> 0, elevation |-> <<>>],
                      [lat |-> 1, lon |-> 0, elevation |-> <<>>]>>, <<>>)

\* Tracks parseGpxFile resolves with: points along a meridian, with
\* repeated and returning points.
AppTracks ==
    {MakeTrack(<<"T">>, [i \in DOMAIN lats |->
                         [lat |-> lats[i], lon |-> 0, elevation |-> <<>>]],
               <<>>) :
        lats \in SeqsUpTo(Lats, MaxTrackPoints) \ {<<>>}}
    \cup {OutOfRangeTrack, WaypointTrack, UnnamedTrack}

\* Errors parseGpxFile rejects with.
AppErrors ==
    {SecurityError(MsgTooManyPoints, "PERFORMANCE"),
     GpxParseError(MsgInvalidXml)}

\* Every coordinate of the track is a Coordinate of the data model.
ValidCoordinates(track) ==
    \A i \in DOMAIN track.points :
        /\ track.points[i].lat >= -90 /\ track.points[i].lat <= 90
        /\ track.points[i].lon >= -180 /\ track.points[i].lon < 180

\* The App renders only while its segments memo does not throw.
AppRendered == ~segments(gpxTrack, boundaries).threw

\* The App as mounted: nothing loaded, nothing pending.
AppMounted ==
    /\ gpxTrack = <<>>
    /\ boundaries = <<>>
    /\ numSegments = 1
    /\ isLoading = FALSE
    /\ error = <<>>
    /\ chartBoundaries = <<>>
    /\ pending = 0

NoCall == [fn |-> "none"]

NoIngest == [pc |-> "none"]

AppInit ==
    /\ AppMounted
    /\ call = NoCall
    /\ ingest = NoIngest

\* handleFileSelect up to its await: the upload control is shown only
\* while no track is loaded.
HandleFileSelectStart ==
    /\ gpxTrack = <<>>
    /\ pending < MaxPending
    /\ AppRendered
    /\ isLoading' = TRUE
    /\ error' = <<>>
    /\ pending' = pending + 1
    /\ UNCHANGED <<gpxTrack, boundaries, numSegments, chartBoundaries>>

HandleFileSelect == HandleFileSelectStart /\ UNCHANGED <<call, ingest>>

\* A resolution that leaves a track that is already held in place.
HandleFileSelectResolvedKeepsFirst(track) ==
    /\ pending > 0
    /\ AppRendered
    /\ gpxTrack' = IF gpxTrack = <<>> THEN <<track>> ELSE gpxTrack
    /\ boundaries' = <<>>
    /\ numSegments' = Len(boundaries') + 1
    /\ chartBoundaries' = IF gpxTrack = <<>> THEN <<>> ELSE chartBoundaries
    /\ isLoading' = FALSE
    /\ pending' = pending - 1
    /\ UNCHANGED error

\* A resolution that leaves the boundaries as they were.
HandleFileSelectResolvedKeepsBoundaries(track) ==
    /\ pending > 0
    /\ AppRendered
    /\ gpxTrack' = <<track>>
    /\ boundaries' = boundaries
    /\ numSegments' = Len(boundaries') + 1
    /\ chartBoundaries' = IF gpxTrack = <<>> THEN <<>> ELSE chartBoundaries
    /\ isLoading' = FALSE
    /\ pending' = pending - 1
    /\ UNCHANGED error

\* handleFileSelect after parseGpxFile resolved with a track, and the
\* effect that follows the change of boundaries.  The chart keeps its own
\* state while it stays mounted and starts empty when it is mounted.
HandleFileSelectResolved(track) ==
    /\ pending > 0
    /\ AppRendered
    /\ gpxTrack' = <<track>>
    /\ boundaries' = <<>>
    /\ numSegments' = Len(boundaries') + 1
    /\ chartBoundaries' = IF gpxTrack = <<>> THEN <<>> ELSE chartBoundaries
    /\ isLoading' = FALSE
    /\ pending' = pending - 1
    /\ UNCHANGED error

ParseResolved ==
    /\ \E track \in AppTracks : HandleFileSelectResolved(track)
    /\ UNCHANGED <<call, ingest>>

\* handleFileSelect after parseGpxFile rejected with an error.
HandleFileSelectRejected(err) ==
    /\ pending > 0
    /\ AppRendered
    /\ error' = <<getErrorMessage(err)>>
    /\ isLoading' = FALSE
    /\ pending' = pending - 1
    /\ UNCHANGED <<gpxTrack, boundaries, numSegments, chartBoundaries>>

ParseRejected ==
    /\ \E err \in AppErrors : HandleFileSelectRejected(err)
    /\ UNCHANGED <<call, ingest>>

\* ElevationChart.handleChartClick with an activeLabel, then
\* onSplitPointsChange = App.setBoundaries and the numSegments effect.
HandleChartClick ==
    /\ gpxTrack # <<>>
    /\ Len(chartBoundaries) < MaxBoundaries
    /\ AppRendered
    /\ \E distance \in ClickDistances :
          chartBoundaries' = SortAsc(chartBoundaries \o <<distance>>)
    /\ boundaries' = chartBoundaries'
    /\ numSegments' = Len(boundaries') + 1
    /\ UNCHANGED <<gpxTrack, isLoading, error, pending, call, ingest>>

\* ElevationChart.clearBoundaries ("Reset to Single Track").
ClearBoundaries ==
    /\ gpxTrack # <<>>
    /\ Len(chartBoundaries) > 0
    /\ AppRendered
    /\ chartBoundaries' = <<>>
    /\ boundaries' = <<>>
    /\ numSegments' = Len(boundaries') + 1
    /\ UNCHANGED <<gpxTrack, isLoading, error, pending, call, ingest>>

\* "Upload Different File": setGpxTrack(null); the chart is unmounted.
UploadDifferentFile ==
    /\ gpxTrack # <<>>
    /\ AppRendered
    /\ gpxTrack' = <<>>
    /\ chartBoundaries' = <<>>
    /\ UNCHANGED <<boundaries, numSegments, isLoading, error, pending, call, ingest>>

Next ==
    \/ HandleFileSelect
    \/ ParseResolved
    \/ ParseRejected
    \/ HandleChartClick
    \/ ClearBoundaries
    \/ UploadDifferentFile

Spec == AppInit /\ [][Next]_vars

----------------------------------------------------------------------------
(* Segmentation yields a contiguous chain.                                 *)

\* segs are k + 1 segments chained over the points of track.
IsChain(track, k, segs) ==
    /\ Len(segs) = k + 1
    /\ segs[1].startIndex = 0
    /\ segs[Len(segs)].endIndex = Len(track.points) - 1
    /\ \A i \in 2..Len(segs) : segs[i].startIndex = segs[i - 1].endIndex
    /\ \A i \in 1..Len(segs) :
          /\ 0 <= segs[i].startIndex
          /\ segs[i].startIndex <= segs[i].endIndex
          /\ segs[i].endIndex <= Len(track.points) - 1
          /\ Len(segs[i].points) = segs[i].endIndex - segs[i].startIndex + 1
          /\ \A j \in 1..Len(segs[i].points) :
                segs[i].points[j] = track.points[segs[i].startIndex + j]

\* Segmentation throws only for a track with a coordinate out of range, and
\* what it returns is a chain.
ChainOrDomainError(track, k, r) ==
    IF r.threw THEN ~ValidCoordinates(track) ELSE IsChain(track, k, r.value)

ThreeDistinctSegments(r) ==
    /\ ~r.threw
    /\ Len(r.value) = 3
    /\ r.value[2].startIndex = 1
    /\ r.value[3].startIndex = 2

----------------------------------------------------------------------------
(* findPointAtDistance, called on its own.                                  *)

\* Point sequences along a meridian, with repeated and returning points.
DistancePoints ==
    {[i \in DOMAIN lats |-> [lat |-> lats[i], lon |-> 0, elevation |-> <<>>]] :
        lats \in SeqsUpTo(Lats, MaxTrackPoints) \ {<<>>}}

\* Target distances (km) before, on, between and beyond the points.
DistanceTargets == {10, 50, 56, 111, 200, 222, 333, 500}

DistanceInit ==
    /\ AppMounted
    /\ ingest = NoIngest
    /\ \E points \in DistancePoints, targetDistance \in DistanceTargets :
          call = [fn |-> "findPointAtDistance", points |-> points,
                  targetDistance |-> targetDistance, result |-> <<>>]

CallFindPointAtDistance ==
    /\ call.fn = "findPointAtDistance"
    /\ call.result = <<>>
    /\ call' = [call EXCEPT !.result =
                   <<findPointAtDistance(call.points, call.targetDistance)>>]
    /\ UNCHANGED <<appVars, ingest>>

DistanceNext == CallFindPointAtDistance

SpecDistance == DistanceInit /\ [][DistanceNext]_vars

\* The code's index i is closest to target among all indices of points, and
\* the lowest of the equally close ones.
IsClosestIndex(points, target, i) ==
    /\ i \in 0..(Len(points) - 1)
    /\ \A j \in 0..(Len(points) - 1) :
          /\ Abs(CumulativeAt(points, i) - target)
                 <= Abs(CumulativeAt(points, j) - target)
          /\ (j < i => Abs(CumulativeAt(points, i) - target)
                           < Abs(CumulativeAt(points, j) - target))

FoundClosest(points, target, r) ==
    ~r.threw /\ IsClosestIndex(points, target, r.value.index)

\* C2: for a non-empty point sequence and a target distance > 0,
\* findPointAtDistance returns the index whose cumulative distance is
\* closest to the target among all indices, index 0 included, and the
\* lowest such index when several are equally close.
C2_ClosestOverAllIndices ==
    (call.fn = "findPointAtDistance" /\ call.result # <<>>
       /\ Len(call.points) >= 1 /\ call.targetDistance > 0)
        => FoundClosest(call.points, call.targetDistance, call.result[1])

----------------------------------------------------------------------------
(* sanitizeText, called on its own.                                        *)

MaxChunks == 3

\* Pieces the inputs are put together from: angle brackets written
\* literally and as entity references, a letter, white space, and URI
\* schemes whole and in parts.
Chunks ==
    {<<"<">>, <<">">>, <<"&", "l", "t", ";">>, <<"&", "g", "t", ";">>, <<"a">>, <<" ">>, <<"j", "a", "v", "a">>, <<"s", "c", "r",
                                                          "i", "p", "t", ":">>,
     <<"j", "a", "v", "a", "s", "c", "r", "i", "p", "t", ":">>, <<"d", "a", "t", "a", ":">>}

RECURSIVE Concat(_)
Concat(ss) == IF ss = <<>> THEN <<>> ELSE Head(ss) \o Concat(Tail(ss))

ShortInputs == {Concat(ss) : ss \in SeqsUpTo(Chunks, MaxChunks)}

\* n times the letter b.
Pad(n) == [i \in 1..n |-> "b"]

\* Lengths around the limit.
PadLengths ==
    {MAX_TEXT_FIELD_LENGTH - 1, MAX_TEXT_FIELD_LENGTH, MAX_TEXT_FIELD_LENGTH + 1}

\* Inputs around the length limit: a long run between two pieces.
LongInputs ==
    {c1 \o Pad(n) \o c2 : c1 \in Chunks \cup {<<>>}, c2 \in Chunks \cup {<<>>},
                          n \in PadLengths}

\* Inputs with the predefined entity references of XML, whole and nested.
EntityChunks ==
    {<<"&", "l", "t", ";">>, <<"&", "g", "t", ";">>, <<"&", "a", "m", "p", ";">>, <<"&", "q", "u", "o", "t", ";">>, <<"&", "a", "p", "o", "s", ";">>, <<"b">>, <<"q", "u",
                                                               "o", "t", ";">>}

EntityInputs == {Concat(ss) : ss \in SeqsUpTo(EntityChunks, MaxChunks)}

SanitizeInit ==
    /\ AppMounted
    /\ ingest = NoIngest
    /\ \E input \in ShortInputs \cup LongInputs \cup EntityInputs :
          call = [fn |-> "sanitizeText", input |-> input, result |-> <<>>]

CallSanitizeText ==
    /\ call.fn = "sanitizeText"
    /\ call.result = <<>>
    /\ call' = [call EXCEPT !.result = <<sanitizeText(call.input)>>]
    /\ UNCHANGED <<appVars, ingest>>

SanitizeNext == CallSanitizeText

SpecSanitize == SanitizeInit /\ [][SanitizeNext]_vars

Sanitized == call.fn = "sanitizeText" /\ call.result # <<>>

\* No '<' of t is followed anywhere later by a '>'.
NoTag(t) ==
    \A i \in DOMAIN t : t[i] = "<" => \A j \in (i + 1)..Len(t) : t[j] # ">"

\* C7: the string sanitizeText returns contains no HTML tag, that is no '<'
\* followed anywhere later by '>', whether the angle brackets of the input
\* were written literally or as &lt; / &gt;.
C7_NoTagInOutput == Sanitized => NoTag(call.result[1])

C7_Witness ==
    /\ Sanitized
    /\ call.input = <<"&", "l", "t", ";", "a", "&", "g", "t", ";">>
    /\ call.result[1] = <<>>

\* None of the three URI schemes occurs in t, in any letter case.
NoScheme(t) ==
    /\ ~IncludesCI(t, <<"j", "a", "v", "a", "s", "c", "r", "i", "p", "t",
                        ":">>)
    /\ ~IncludesCI(t, <<"v", "b", "s", "c", "r", "i", "p", "t", ":">>)
    /\ ~IncludesCI(t, <<"d", "a", "t", "a", ":">>)

\* C8: the string sanitizeText returns contains no occurrence, in any
\* letter case, of 'javascript:', 'vbscript:' or 'data:'.
C8_NoSchemeInOutput == Sanitized => NoScheme(call.result[1])

\* The input is longer than the limit once trimmed.
OverLong == Sanitized /\ Len(Trim(call.input)) > MAX_TEXT_FIELD_LENGTH

EndsWithEllipsis(t) ==
    Len(t) >= 3 /\ SubSeq(t, Len(t) - 2, Len(t)) = <<".", ".", ".">>

\* C9 as stated: for an input whose length after trimming exceeds 500,
\* sanitizeText returns exactly 503 characters ending with '...'.
C9_Exactly503 ==
    OverLong => /\ Len(call.result[1]) = MAX_TEXT_FIELD_LENGTH + 3
                /\ EndsWithEllipsis(call.result[1])

\* Nothing in t is decoded or stripped by the steps after the length limit:
\* every pattern of theirs needs one of these characters.
Plain(t) ==
    \A i \in DOMAIN t :
        t[i] \notin {"&", "<", ":", "="} /\ ~IsStrippedControl(t[i])

\* C9 amended: for an input whose length after trimming exceeds 500,
\* sanitizeText returns at most 503 characters; it returns the first 500
\* characters of the trimmed input followed by '...', 503 characters in
\* all, when those 500 characters hold nothing that the later steps decode
\* or strip.
C9_AtMost503 ==
    OverLong =>
        /\ Len(call.result[1]) <= MAX_TEXT_FIELD_LENGTH + 3
        /\ (Plain(SubSeq(Trim(call.input), 1, MAX_TEXT_FIELD_LENGTH))
               => call.result[1] = SubSeq(Trim(call.input), 1, MAX_TEXT_FIELD_LENGTH)
                                      \o <<".", ".", ".">>)

C9_Witness ==
    /\ OverLong
    /\ Plain(SubSeq(Trim(call.input), 1, MAX_TEXT_FIELD_LENGTH))
    /\ Len(call.result[1]) = MAX_TEXT_FIELD_LENGTH + 3
    /\ EndsWithEllipsis(call.result[1])

-----------------------------------------------------------------------------
(* Track ingestion: parseGpxFile, and generateGpxXml whose text it reads  *)
(* back.                                                                   *)
(*                                                                         *)
(* A GPX text is kept by its parts instead of character by character: the  *)
(* prolog (everything before the <gpx> tag), whether the elements are      *)
(* closed, and the character data of each element and attribute as         *)
(* written.  The markup between the parts is the fixed markup of the       *)
(* template of generateGpxXml.  An element's content is a record with its  *)
(* raw text and whether it is wrapped in <![CDATA[ ]]>; an optional        *)
(* element or attribute is a sequence of length 0 or 1.                    *)

Field(raw) == <<[cdata |-> FALSE, raw |-> raw]>>

\* A function over 1..n as the sequence it is: TLC keeps the result of a
\* concatenation as a tuple, which it reads in constant time.
AsSequence(f) == f \o <<>>

CData(raw) == <<[cdata |-> TRUE, raw |-> raw]>>

\* `${number}` in a template literal: the decimal digits of an integer.
DigitChars == <<"0", "1", "2", "3", "4", "5", "6", "7", "8", "9">>

RECURSIVE NatToChars(_)
NatToChars(n) ==
    IF n < 10 THEN <<DigitChars[n + 1]>>
    ELSE NatToChars(n \div 10) \o <<DigitChars[(n % 10) + 1]>>

NumToChars(n) == IF n < 0 THEN <<"-">> \o NatToChars(0 - n) ELSE NatToChars(n)

\* parseFloat: leading white space, an optional sign, then the longest run
\* of digits; whatever follows is ignored, and there is no number (NaN)
\* without a digit.  Whole numbers only.
NaN == [nan |-> TRUE, value |-> 0]

DigitValue(c) == (CHOOSE d \in 1..10 : DigitChars[d] = c) - 1

RunEndDigit(s, i) ==
    CHOOSE j \in i..(Len(s) + 1) :
        /\ (j = Len(s) + 1 \/ s[j] \notin Digits)
        /\ \A k \in i..(j - 1) : s[k] \in Digits

\* The value of the digits s[i..j-1].
RECURSIVE DigitsValue(_, _, _)
DigitsValue(s, i, j) ==
    IF j <= i THEN 0
    ELSE 10 * DigitsValue(s, i, j - 1) + DigitValue(s[j - 1])

ParseDigitsAt(s, i, sign) ==
    IF RunEndDigit(s, i) = i THEN NaN
    ELSE [nan |-> FALSE, value |-> sign * DigitsValue(s, i, RunEndDigit(s, i))]

ParseSignedAt(s, i) ==
    IF i <= Len(s) /\ s[i] = "-" THEN ParseDigitsAt(s, i + 1, -1)
    ELSE IF i <= Len(s) /\ s[i] = "+" THEN ParseDigitsAt(s, i + 1, 1)
    ELSE ParseDigitsAt(s, i, 1)

parseFloat(s) == ParseSignedAt(s, RunEndSpace(s, 1))

\* new Date().toISOString() at the time of the export.
CurrentDate == <<"2", "0", "2", "4", "-", "0", "1", "-", "0", "1", "T",
                 "0", "0", ":", "0", "0", ":", "0", "0", ".", "0", "0",
                 "0", "Z">>

XmlDeclaration == <<"<", "?", "x", "m", "l", " ", "v", "e", "r", "s", "i",
                    "o", "n", "=", "\"", "1", ".", "0", "\"", " ", "e",
                    "n", "c", "o", "d", "i", "n", "g", "=", "\"", "U", "T",
                    "F", "-", "8", "\"", "?", ">">>

\* A truthy optional string: present and not empty.
Truthy(opt) == opt # <<>> /\ opt[1] # <<>>

\* generateGpxXml: one <wpt> and one <trkpt>.
WaypointXml(waypoint) ==
    [lat  |-> <<NumToChars(waypoint.lat)>>,
     lon  |-> <<NumToChars(waypoint.lon)>>,
     ele  |-> IF waypoint.elevation # <<>>
              THEN Field(NumToChars(waypoint.elevation[1])) ELSE <<>>,
     name |-> IF Truthy(waypoint.name) THEN CData(waypoint.name[1]) ELSE <<>>,
     desc |-> IF Truthy(waypoint.description)
              THEN CData(waypoint.description[1]) ELSE <<>>,
     sym  |-> IF Truthy(waypoint.symbol) THEN Field(waypoint.symbol[1]) ELSE <<>>]

TrackPointXml(point) ==
    [lat |-> NumToChars(point.lat),
     lon |-> NumToChars(point.lon),
     ele |-> IF point.elevation # <<>>
             THEN Field(NumToChars(point.elevation[1])) ELSE <<>>]

\* generateGpxXml(segment): the segment's name is written as it is, twice;
\* waypoint names and descriptions are wrapped in CDATA.
generateGpxXml(segment) ==
    [prolog       |-> XmlDeclaration,
     closed       |-> TRUE,
     metadataName |-> Field(segment.name),
     metadataTime |-> Field(CurrentDate),
     wpts |-> AsSequence([i \in DOMAIN segment.waypoints |->
                             WaypointXml(segment.waypoints[i])]),
     trks |-> <<[name |-> Field(segment.name),
                 pts  |-> AsSequence([i \in DOMAIN segment.points |->
                                         TrackPointXml(segment.points[i])])]>>]

\* The character data of a text, piece by piece in document order: the
\* patterns of validateXmlSecurity are looked for inside the pieces, the
\* fixed markup between them holding none.
Raws(f) == [i \in DOMAIN f |-> f[i].raw]

HeaderPieces(text) ==
    <<text.prolog>> \o Raws(text.metadataName) \o Raws(text.metadataTime)

WptPieces(w) ==
    w.lat \o w.lon \o Raws(w.ele) \o Raws(w.name) \o Raws(w.desc) \o Raws(w.sym)

TrkptPieces(p) == <<p.lat, p.lon>> \o Raws(p.ele)

AnyIn(pieces, P(_)) == \E i \in DOMAIN pieces : P(pieces[i])

AnyInTrkpt(p, P(_)) == P(p.lat) \/ P(p.lon) \/ AnyIn(Raws(p.ele), P)

AnyInTrk(t, P(_)) ==
    \/ AnyIn(Raws(t.name), P)
    \/ \E i \in DOMAIN t.pts : AnyInTrkpt(t.pts[i], P)

\* Some piece of the text satisfies P.
AnyPiece(text, P(_)) ==
    \/ AnyIn(HeaderPieces(text), P)
    \/ \E k \in DOMAIN text.wpts : AnyIn(WptPieces(text.wpts[k]), P)
    \/ \E k \in DOMAIN text.trks : AnyInTrk(text.trks[k], P)

\* The first element of a sequence that satisfies Q, and the first piece
\* of the text that satisfies P, where there is one.
FirstOf(elems, Q(_)) ==
    elems[CHOOSE k \in DOMAIN elems :
              Q(elems[k]) /\ \A j \in 1..(k - 1) : ~Q(elems[j])]

FirstInTrk(t, P(_)) ==
    IF AnyIn(Raws(t.name), P) THEN FirstOf(Raws(t.name), P)
    ELSE FirstOf(TrkptPieces(FirstOf(t.pts, LAMBDA p : AnyInTrkpt(p, P))), P)

FirstPiece(text, P(_)) ==
    IF AnyIn(HeaderPieces(text), P) THEN FirstOf(HeaderPieces(text), P)
    ELSE IF \E k \in DOMAIN text.wpts : AnyIn(WptPieces(text.wpts[k]), P)
    THEN FirstOf(WptPieces(FirstOf(text.wpts, LAMBDA w : AnyIn(WptPieces(w), P))), P)
    ELSE FirstInTrk(FirstOf(text.trks, LAMBDA t : AnyInTrk(t, P)), P)

\* /<!ENTITY\s+/i at i: the position after the white space, or 0.
EntityDeclEnd(s, i) ==
    IF MatchAt(s, i, <<"<", "!", "E", "N", "T", "I", "T", "Y">>, TRUE) /\ RunEndSpace(s, i + 8) > i + 8
    THEN RunEndSpace(s, i + 8) ELSE 0

\* /\w+\s+keyword/i at n.
NamedExternalAt(s, n, keyword) ==
    /\ RunEndWord(s, n) > n
    /\ RunEndSpace(s, RunEndWord(s, n)) > RunEndWord(s, n)
    /\ MatchAt(s, RunEndSpace(s, RunEndWord(s, n)), keyword, TRUE)

\* /<!ENTITY\s+\w+\s+SYSTEM/i and /<!ENTITY\s+\w+\s+PUBLIC/i somewhere in s.
\* \w+ is greedy and gives characters back: the name may end before the
\* end of the run of word characters only if white space follows, which
\* it cannot inside the run.
HasExternalEntity(s, keyword) ==
    \E i \in DOMAIN s :
        EntityDeclEnd(s, i) # 0 /\ NamedExternalAt(s, EntityDeclEnd(s, i), keyword)

\* /<!ENTITY\s+%\s*\w+/i somewhere in s.  \s+ gives characters back, but
\* '%' is no white space, so only the whole run can precede it.
HasParameterEntity(s) ==
    \E i \in DOMAIN s :
        /\ EntityDeclEnd(s, i) # 0
        /\ EntityDeclEnd(s, i) <= Len(s)
        /\ s[EntityDeclEnd(s, i)] = "%"
        /\ RunEndWord(s, RunEndSpace(s, EntityDeclEnd(s, i) + 1))
              > RunEndSpace(s, EntityDeclEnd(s, i) + 1)

\* /&\w+;/ somewhere in s.
HasEntityReference(s) ==
    \E i \in DOMAIN s :
        /\ s[i] = "&"
        /\ RunEndWord(s, i + 1) > i + 1
        /\ RunEndWord(s, i + 1) <= Len(s)
        /\ s[RunEndWord(s, i + 1)] = ";"

\* /<!DOCTYPE[^>]*>/i at i of a piece: the declaration runs to the first
\* '>' of the piece or, without one, into the markup that follows the
\* piece, whose first '>' then ends it.
DoctypeAt(s, i) == MatchAt(s, i, <<"<", "!", "D", "O", "C", "T", "Y", "P",
                                   "E">>, TRUE)

HasDoctype(s) == \E i \in DOMAIN s : DoctypeAt(s, i)

FirstDoctypeIn(s) ==
    CHOOSE i \in DOMAIN s : DoctypeAt(s, i) /\ \A k \in 1..(i - 1) : ~DoctypeAt(s, k)

DoctypeFrom(s, i) ==
    IF \E j \in i..Len(s) : s[j] = ">"
    THEN SubSeq(s, i, CHOOSE j \in i..Len(s) :
                          s[j] = ">" /\ \A k \in i..(j - 1) : s[k] # ">")
    ELSE SubSeq(s, i, Len(s))

\* xmlContent.match(/<!DOCTYPE[^>]*>/i): the first match of the document.
DoctypeMatch(text) ==
    IF AnyPiece(text, HasDoctype)
    THEN <<DoctypeFrom(FirstPiece(text, HasDoctype),
                       FirstDoctypeIn(FirstPiece(text, HasDoctype)))>>
    ELSE <<>>

\* doctype.includes('SYSTEM') || doctype.includes('PUBLIC')
ExternalDoctype(doctypeMatch) ==
    /\ doctypeMatch # <<>>
    /\ (Includes(doctypeMatch[1], <<"S", "Y", "S", "T", "E", "M">>) \/ Includes(doctypeMatch[1], <<"P",
                                                                            "U",
                                                                            "B",
                                                                            "L",
                                                                            "I",
                                                                            "C">>))

HasSystemEntity(s) == HasExternalEntity(s, <<"S", "Y", "S", "T", "E", "M">>)

HasPublicEntity(s) == HasExternalEntity(s, <<"P", "U", "B", "L", "I", "C">>)

\* validateXmlSecurity(xmlContent): the four patterns in their order, then
\* the document type declaration.
validateXmlSecurity(xmlContent) ==
    IF AnyPiece(xmlContent, HasSystemEntity)
    THEN Throw(SecurityError(MsgXxeSystem, "XXE"))
    ELSE IF AnyPiece(xmlContent, HasPublicEntity)
    THEN Throw(SecurityError(MsgXxePublic, "XXE"))
    ELSE IF AnyPiece(xmlContent, HasParameterEntity)
    THEN Throw(SecurityError(MsgXxeParameter, "XXE"))
    ELSE IF AnyPiece(xmlContent, HasEntityReference)
    THEN Throw(SecurityError(MsgXxeReference, "XXE"))
    ELSE IF ExternalDoctype(DoctypeMatch(xmlContent))
    THEN Throw(SecurityError(MsgXxeDoctype, "XXE"))
    ELSE Return(TRUE)

\* DOMParser.parseFromString(text, 'application/xml').  Character data
\* outside CDATA may hold neither '<' nor an '&' that does not start a
\* reference; the references known here are the predefined &amp; and
\* &lt; and the character references &#38; and &#60;.  No character data
\* may hold ']]>', and an attribute value no double quote.
References ==
    {<<<<"&", "a", "m", "p", ";">>, "&">>, <<<<"&", "l", "t", ";">>, "<">>, <<<<"&", "#", "3", "8", ";">>, "&">>, <<<<"&", "#",
                                                                 "6", "0",
                                                                 ";">>, "<">>}

ReferenceAt(s, i) == {r \in References : MatchAt(s, i, r[1], FALSE)}

CharDataError(s) ==
    \E i \in DOMAIN s :
        \/ s[i] = "<"
        \/ s[i] = "&" /\ ReferenceAt(s, i) = {}
        \/ s[i] = "]" /\ MatchAt(s, i, <<"]", "]", ">">>, FALSE)

FieldError(f) ==
    \E i \in DOMAIN f :
        IF f[i].cdata THEN Includes(f[i].raw, <<"]", "]", ">">>) ELSE CharDataError(f[i].raw)


AttrValueError(v) == CharDataError(v) \/ "\"" \in Range(v)

WptError(w) ==
    \/ (\E i \in DOMAIN w.lat : AttrValueError(w.lat[i]))
    \/ (\E i \in DOMAIN w.lon : AttrValueError(w.lon[i]))
    \/ FieldError(w.ele) \/ FieldError(w.name) \/ FieldError(w.desc) \/ FieldError(w.sym)

TrkError(t) ==
    \/ FieldError(t.name)
    \/ \E i \in DOMAIN t.pts :
          \/ AttrValueError(t.pts[i].lat)
          \/ AttrValueError(t.pts[i].lon)
          \/ FieldError(t.pts[i].ele)

\* The prolog of a well-formed document: an optional XML declaration,
\* then nothing or one document type declaration, its keyword in upper
\* case.
DoctypeCount(s) == Cardinality({i \in DOMAIN s : DoctypeAt(s, i)})

PrologRest(prolog) ==
    IF MatchAt(prolog, 1, XmlDeclaration, FALSE)
    THEN SubSeq(prolog, Len(XmlDeclaration) + 1, Len(prolog))
    ELSE prolog

DeclarationError(rest) ==
    /\ rest # <<>>
    /\ \/ ~MatchAt(rest, 1, <<"<", "!", "D", "O", "C", "T", "Y", "P", "E">>, FALSE)
       \/ DoctypeCount(rest) > 1
       \/ rest[Len(rest)] # ">"

PrologError(prolog) == DeclarationError(PrologRest(prolog))

WellFormed(text) ==
    /\ text.closed
    /\ ~PrologError(text.prolog)
    /\ ~FieldError(text.metadataName) /\ ~FieldError(text.metadataTime)
    /\ \A k \in DOMAIN text.wpts : ~WptError(text.wpts[k])
    /\ \A k \in DOMAIN text.trks : ~TrkError(text.trks[k])

\* The document: a parsererror element or the elements of the text.
DomParse(text) == [parsererror |-> ~WellFormed(text), text |-> text]

\* The references of character data replaced, each once, left to right.
NextReference(s, i) ==
    IF \E j \in i..Len(s) : ReferenceAt(s, j) # {}
    THEN CHOOSE j \in i..Len(s) :
             ReferenceAt(s, j) # {} /\ \A k \in i..(j - 1) : ReferenceAt(s, k) = {}
    ELSE 0

RECURSIVE DecodeReferencesFrom(_, _)
DecodeReferencesAt(s, i, m) ==
    IF m = 0 THEN SubSeq(s, i, Len(s))
    ELSE SubSeq(s, i, m - 1)
         \o <<(CHOOSE r \in ReferenceAt(s, m) : TRUE)[2]>>
         \o DecodeReferencesFrom(s, m + Len((CHOOSE r \in ReferenceAt(s, m) : TRUE)[1]))

DecodeReferencesFrom(s, i) == DecodeReferencesAt(s, i, NextReference(s, i))

DecodeReferences(s) == IF "&" \in Range(s) THEN DecodeReferencesFrom(s, 1) ELSE s

\* element?.textContent and element.getAttribute(name): the empty string
\* (falsy) for an element that is absent or empty.
textContent(f) ==
    IF f = <<>> THEN <<>>
    ELSE IF f[1].cdata THEN f[1].raw
    ELSE DecodeReferences(f[1].raw)

getAttribute(a) == IF a = <<>> THEN <<>> ELSE DecodeReferences(a[1])

\* gpx(xmlDoc) of @mapbox/togeojson, from its declared interface and from
\* what the repository's tests show of it: one LineString feature for each
\* <trk>, its coordinates [lon, lat] or [lon, lat, ele] read with
\* parseFloat and its name property the text of <name>, followed by one
\* Point feature for each <wpt>.  A track without points gives no feature;
\* minLine, 1 or 2, is the number of points below which the library gives
\* none either, which the repository does not show.
Coordinate(pt) ==
    [lon |-> parseFloat(getAttribute(<<pt.lon>>)).value,
     lat |-> parseFloat(getAttribute(<<pt.lat>>)).value,
     elevation |-> IF parseFloat(textContent(pt.ele)).nan THEN <<>>
                   ELSE <<parseFloat(textContent(pt.ele)).value>>]

TrackFeature(trk) ==
    [type |-> "LineString",
     name |-> textContent(trk.name),
     coordinates |-> AsSequence([i \in DOMAIN trk.pts |-> Coordinate(trk.pts[i])])]

PointFeature(wpt) == [type |-> "Point", name |-> <<>>, coordinates |-> <<>>]

gpx(xmlDoc, minLine) ==
    [features |->
        SelectSeq(AsSequence([k \in DOMAIN xmlDoc.text.trks |->
                                 TrackFeature(xmlDoc.text.trks[k])]),
                  LAMBDA f : Len(f.coordinates) >= minLine)
        \o [k \in DOMAIN xmlDoc.text.wpts |-> PointFeature(xmlDoc.text.wpts[k])]]

\* parseGpxFile, lines 104-105: the coordinates of a <wpt>.
WaypointLat(w) ==
    parseFloat(IF getAttribute(w.lat) = <<>> THEN <<"0">> ELSE getAttribute(w.lat))

WaypointLon(w) ==
    parseFloat(IF getAttribute(w.lon) = <<>> THEN <<"0">> ELSE getAttribute(w.lon))

\* lines 118-134 with sanitizeWaypoint: a text element that is not empty is
\* trimmed and, unless the trimmed text is empty, sanitized.
WaypointText(f) ==
    IF textContent(f) = <<>> THEN <<>>
    ELSE IF Trim(textContent(f)) = <<>> THEN <<<<>>>>
    ELSE <<sanitizeText(Trim(textContent(f)))>>

\* lines 110-116
WaypointElevation(f) ==
    IF textContent(f) = <<>> \/ parseFloat(textContent(f)).nan THEN <<>>
    ELSE <<parseFloat(textContent(f)).value>>

\* lines 107-165, for a <wpt> that is kept.
ExtractWaypoint(w) ==
    [lat |-> WaypointLat(w).value, lon |-> WaypointLon(w).value,
     elevation |-> WaypointElevation(w.ele),
     name |-> WaypointText(w.name),
     description |-> WaypointText(w.desc),
     symbol |-> WaypointText(w.sym)]

\* lines 100-166
KeptWaypoints(wpts) ==
    SelectSeq(wpts, LAMBDA w : ~WaypointLat(w).nan /\ ~WaypointLon(w).nan)

MapWaypoints(kept) == AsSequence([k \in DOMAIN kept |-> ExtractWaypoint(kept[k])])

ExtractWaypoints(wpts) == MapWaypoints(KeptWaypoints(wpts))

\* lines 85-94
TrackPoints(coordinates) ==
    AsSequence([i \in DOMAIN coordinates |->
                   [lat |-> coordinates[i].lat, lon |-> coordinates[i].lon,
                    elevation |-> coordinates[i].elevation]])

\* s.replace('.gpx', ''): the first occurrence only.
ReplaceFirst(s, m, pat, rep) ==
    IF m = 0 THEN s
    ELSE SubSeq(s, 1, m - 1) \o rep \o SubSeq(s, m + Len(pat), Len(s))

\* lines 180-183
TrackName(trackFeature, file) ==
    IF trackFeature.name # <<>> THEN trackFeature.name
    ELSE ReplaceFirst(file.name, NextLiteral(file.name, 1, <<".", "g", "p",
                                                             "x">>, FALSE),
                      <<".", "g", "p", "x">>, <<>>)

\* lines 193-195
Validated(track) ==
    IF validateGpxData(track).threw THEN validateGpxData(track) ELSE Return(track)

\* lines 84-195
BuildTrack(file, xmlDoc, trackFeature) ==
    IF Len(trackFeature.coordinates) = 0
    THEN Throw(GpxParseError(MsgNoPoints))
    ELSE Validated(MakeTrack(TrackName(trackFeature, file),
                             TrackPoints(trackFeature.coordinates),
                             ExtractWaypoints(xmlDoc.text.wpts)))

\* features.find(feature => feature.geometry.type === 'LineString')
FirstLineString(features) ==
    CHOOSE i \in DOMAIN features :
        /\ features[i].type = "LineString"
        /\ \A k \in 1..(i - 1) : features[k].type # "LineString"

\* The extraction with the waypoints counted before a track is looked for.
ExtractTrackCountFirst(file, xmlDoc, features) ==
    IF Len(KeptWaypoints(xmlDoc.text.wpts)) > MAX_WAYPOINTS
    THEN Throw(SecurityError(MsgTooManyWaypoints, "PERFORMANCE"))
    ELSE IF Len(features) = 0
    THEN Throw(GpxParseError(MsgNoTracks))
    ELSE IF \A i \in DOMAIN features : features[i].type # "LineString"
    THEN Throw(GpxParseError(MsgNoValidTrack))
    ELSE BuildTrack(file, xmlDoc, features[FirstLineString(features)])

\* lines 67-82
ExtractTrack(file, xmlDoc, features) ==
    IF Len(features) = 0
    THEN Throw(GpxParseError(MsgNoTracks))
    ELSE IF \A i \in DOMAIN features : features[i].type # "LineString"
    THEN Throw(GpxParseError(MsgNoValidTrack))
    ELSE BuildTrack(file, xmlDoc, features[FirstLineString(features)])

\* lines 58-65
FromDocument(file, xmlDoc, minLine) ==
    IF xmlDoc.parsererror
    THEN Throw(GpxParseError(MsgInvalidXml))
    ELSE ExtractTrack(file, xmlDoc, gpx(xmlDoc, minLine).features)

\* createSecureParser().parseFromString with the validation after the parse.
parseFromStringParseFirst(xmlString, parseTime) ==
    IF parseTime > PARSE_TIMEOUT
    THEN [invoked |-> TRUE, r |-> Throw(SecurityError(MsgParseTime, "PERFORMANCE"))]
    ELSE IF validateXmlSecurity(xmlString).threw
    THEN [invoked |-> TRUE, r |-> validateXmlSecurity(xmlString)]
    ELSE [invoked |-> TRUE, r |-> Return(DomParse(xmlString))]

\* createSecureParser().parseFromString(xmlString, 'application/xml'), the
\* DOM parser taking parseTime milliseconds: what it returns or throws, and
\* whether the DOM parser was invoked.
parseFromString(xmlString, parseTime) ==
    IF validateXmlSecurity(xmlString).threw
    THEN [invoked |-> FALSE, r |-> validateXmlSecurity(xmlString)]
    ELSE IF parseTime > PARSE_TIMEOUT
    THEN [invoked |-> TRUE, r |-> Throw(SecurityError(MsgParseTime, "PERFORMANCE"))]
    ELSE [invoked |-> TRUE, r |-> Return(DomParse(xmlString))]

\* lines 54-195, from what the secure parser gave.
FromParsed(file, parsed, minLine) ==
    [invoked |-> parsed.invoked,
     r |-> IF parsed.r.threw THEN parsed.r
           ELSE FromDocument(file, parsed.r.value, minLine)]

\* The catch block with every error passed on as it is.
CatchRethrow(r) == r

\* The catch block, lines 196-203, applied to what the try block gave.
Catch(r) ==
    IF ~r.threw \/ r.value.name \in {"GpxParseError", "SecurityError"} THEN r
    ELSE Throw(GpxParseError(MsgFailedPrefix
                             \o (IF r.value.name = "Error" THEN r.value.message
                                 ELSE MsgUnknown)))

-----------------------------------------------------------------------------
(* parseGpxFile run on its own, and on the text generateGpxXml gives for a *)
(* segment of a track it returned.                                         *)

\* The texts the files hold.
GpxText(prolog, closed, wpts, trks) ==
    [prolog |-> prolog, closed |-> closed, metadataName |-> <<>>,
     metadataTime |-> <<>>, wpts |-> wpts, trks |-> trks]

\* <trkpt lat=".." lon=".."> with or without <ele>.
TrkptA == [lat |-> <<"0">>, lon |-> <<"0">>, ele |-> Field(<<"5">>)]

TrkptB == [lat |-> <<"1">>, lon |-> <<"0">>, ele |-> <<>>]

TrkptC == [lat |-> <<"-", "2">>, lon |-> <<"0">>, ele |-> Field(<<"-", "7">>)]

PointLists == {<<>>, <<TrkptA>>, <<TrkptA, TrkptB, TrkptC>>}

NamedTrack == [name |-> Field(<<"T">>), pts |-> <<TrkptA, TrkptB>>]

\* Document prologs: none beyond the XML declaration, harmless document
\* type declarations, and the declarations validateXmlSecurity looks for.
Prologs ==
    {XmlDeclaration,
     XmlDeclaration \o <<"<", "!", "D", "O", "C", "T", "Y", "P", "E", " ",
                         "g", "p", "x", ">">>,
     XmlDeclaration \o <<"<", "!", "D", "O", "C", "T", "Y", "P", "E", " ",
                         "g", "p", "x", " ", "[", "<", "!", "E", "N", "T",
                         "I", "T", "Y", " ", "e", " ", "\"", "v", "\"",
                         ">", "]", ">">>,
     XmlDeclaration \o <<"<", "!", "D", "O", "C", "T", "Y", "P", "E", " ",
                         "g", "p", "x", " ", "S", "Y", "S", "T", "E", "M",
                         " ", "\"", "g", "p", "x", ".", "d", "t", "d",
                         "\"", ">">>,
     XmlDeclaration \o <<"<", "!", "d", "o", "c", "t", "y", "p", "e", " ",
                         "g", "p", "x", " ", "s", "y", "s", "t", "e", "m",
                         " ", "\"", "g", "p", "x", ".", "d", "t", "d",
                         "\"", ">">>,
     XmlDeclaration \o <<"<", "!", "D", "O", "C", "T", "Y", "P", "E", " ",
                         "g", "p", "x", " ", "[", "<", "!", "E", "N", "T",
                         "I", "T", "Y", " ", "x", "x", "e", " ", "S", "Y",
                         "S", "T", "E", "M", " ", "\"", "f", "i", "l", "e",
                         ":", "/", "/", "/", "e", "t", "c", "/", "p", "a",
                         "s", "s", "w", "d", "\"", ">", "]", ">">>,
     XmlDeclaration \o <<"<", "!", "D", "O", "C", "T", "Y", "P", "E", " ",
                         "g", "p", "x", " ", "[", "<", "!", "E", "N", "T",
                         "I", "T", "Y", " ", "x", "x", "e", " ", "P", "U",
                         "B", "L", "I", "C", " ", "\"", "a", "\"", " ",
                         "\"", "b", "\"", ">", "]", ">">>,
     XmlDeclaration \o <<"<", "!", "D", "O", "C", "T", "Y", "P", "E", " ",
                         "g", "p", "x", " ", "[", "<", "!", "E", "N", "T",
                         "I", "T", "Y", " ", "%", " ", "p", "e", " ", "\"",
                         "v", "\"", ">", "]", ">">>}

PrologTexts == {GpxText(p, TRUE, <<>>, <<NamedTrack>>) : p \in Prologs}

\* <name> of the track: absent, empty, plain, with an ampersand in CDATA
\* or as a character reference, with an entity reference, with a bare '<',
\* with the start of a tag and with a URI scheme in CDATA.
TrackNames ==
    {<<>>, Field(<<>>), Field(<<"T">>), CData(<<"R", "&", "D">>), Field(<<"R", "&", "#",
                                                            "3", "8", ";",
                                                            "D">>),
     Field(<<"a", "&", "x", ";", "b">>), Field(<<"a", "<", "b">>), CData(<<"<", "t", "r", "k", "p", "t">>), CData(<<"j", "a",
                                                               "v", "a",
                                                               "s", "c",
                                                               "r", "i",
                                                               "p", "t",
                                                               ":", "T">>)}

TrackTexts ==
    {GpxText(XmlDeclaration, TRUE, <<>>, <<[name |-> n, pts |-> pts]>>) :
        n \in TrackNames, pts \in PointLists}

\* <wpt> elements: complete with markup in its name, without lat, with a
\* lat that is no number, with a name of white space.
WptFull ==
    [lat |-> <<<<"2">>>>, lon |-> <<<<"5">>>>, ele |-> Field(<<"9">>),
     name |-> CData(<<"<", "b", ">", "w", "<", "/", "b", ">">>), desc |-> Field(<<"d">>), sym |-> Field(<<"F",
                                                                        "l",
                                                                        "a",
                                                                        "g">>)]

WptNoLat == [WptFull EXCEPT !.lat = <<>>, !.ele = <<>>, !.desc = <<>>]

WptBadLat == [WptFull EXCEPT !.lat = <<<<"x">>>>]

\* lon="" : the attribute is there and empty.
WptEmptyLon == [WptFull EXCEPT !.lon = <<<<>>>>]

WptBlankName ==
    [lat |-> <<<<"1">>>>, lon |-> <<<<"1">>>>, ele |-> Field(<<"x">>),
     name |-> Field(<<" ">>), desc |-> <<>>, sym |-> <<>>]

WptBare == [lat |-> <<<<"1">>>>, lon |-> <<<<"1">>>>, ele |-> <<>>,
            name |-> <<>>, desc |-> <<>>, sym |-> <<>>]

WptLists ==
    {<<WptFull>>, <<WptNoLat>>, <<WptBadLat>>, <<WptBlankName>>, <<WptEmptyLon>>,
     <<WptBadLat, WptFull, WptBare>>}

WptTexts ==
    {GpxText(XmlDeclaration, TRUE, w, <<NamedTrack>>) : w \in WptLists}
    \cup {GpxText(XmlDeclaration, TRUE, <<WptBare>>, <<>>)}

\* Texts without a track, with an empty track before a track with points,
\* with an element left open, and with an element left open after an
\* entity declaration.
OddTexts ==
    {GpxText(XmlDeclaration, TRUE, <<>>, <<>>),
     GpxText(XmlDeclaration, TRUE, <<>>, <<[name |-> <<>>, pts |-> <<>>], NamedTrack>>),
     GpxText(XmlDeclaration, FALSE, <<>>, <<NamedTrack>>),
     GpxText(XmlDeclaration \o <<"<", "!", "D", "O", "C", "T", "Y", "P",
                                 "E", " ", "g", "p", "x", " ", "[", "<",
                                 "!", "E", "N", "T", "I", "T", "Y", " ",
                                 "e", " ", "\"", "v", "\"", ">", "]", ">">>, FALSE, <<>>,
             <<NamedTrack>>),
     GpxText(XmlDeclaration \o <<"<", "!", "D", "O", "C", "T", "Y", "P",
                                 "E", " ", "g", "p", "x", " ", "[", "<",
                                 "!", "E", "N", "T", "I", "T", "Y", " ",
                                 "x", "x", "e", " ", "S", "Y", "S", "T",
                                 "E", "M", " ", "\"", "f", "i", "l", "e",
                                 ":", "/", "/", "/", "e", "t", "c", "/",
                                 "p", "a", "s", "s", "w", "d", "\"", ">",
                                 "]", ">">>,
             FALSE, <<>>, <<NamedTrack>>)}

\* Texts at and beyond the limits of validateGpxData.
Repeat(n, x) == AsSequence([i \in 1..n |-> x])

BigTexts ==
    {GpxText(XmlDeclaration, TRUE, <<>>,
             <<[name |-> Field(<<"T">>), pts |-> Repeat(n, TrkptB)]>>) :
        n \in {MAX_POINTS, MAX_POINTS + 1}}
    \cup {GpxText(XmlDeclaration, TRUE, Repeat(n, WptBare) \o <<WptBadLat>>,
                  <<NamedTrack>>) :
             n \in {MAX_WAYPOINTS, MAX_WAYPOINTS + 1}}
    \cup {GpxText(XmlDeclaration, TRUE, Repeat(MAX_WAYPOINTS + 1, WptBare), <<>>)}

\* A file: its name, its size in bytes and the text file.text() resolves
\* with.  A file at the size limit is its text followed by white space up
\* to that size, which no step looks at.
GpxFile(name, size, text) == [name |-> name, size |-> size, text |-> text]

Files ==
    {GpxFile(<<"a", ".", "g", "p", "x">>, MAX_FILE_SIZE - 1, t) :
        t \in PrologTexts \cup TrackTexts \cup WptTexts \cup OddTexts \cup BigTexts}
    \cup {GpxFile(<<"R", "&", "D", ".", "g", "p", "x">>, MAX_FILE_SIZE - 1, t) :
             t \in {u \in TrackTexts : u.trks[1].name = <<>>}}
    \cup {GpxFile(n, MAX_FILE_SIZE - 1, t) :
             n \in {<<"B", ".", "G", "P", "X">>, <<"c", ".", "G", "p", "x">>, <<"d", ".", "g", "p", "x", ".",
                                          "o", "l", "d", ".", "g", "p", "x">>, <<".", "g", "p",
                                                            "x">>},
             t \in {u \in TrackTexts : u.trks[1].name = <<>> /\ Len(u.trks[1].pts) = 3}}
    \cup {GpxFile(<<"a", ".", "g", "p", "x">>, size, t) :
             size \in {MAX_FILE_SIZE, MAX_FILE_SIZE + 1},
             t \in {GpxText(p, TRUE, <<>>, <<NamedTrack>>) :
                       p \in {XmlDeclaration,
                              XmlDeclaration \o <<"<", "!", "D", "O", "C",
                                                  "T", "Y", "P", "E", " ",
                                                  "g", "p", "x", " ", "S",
                                                  "Y", "S", "T", "E", "M",
                                                  " ", "\"", "g", "p", "x",
                                                  ".", "d", "t", "d", "\"",
                                                  ">">>,
                              XmlDeclaration
                                  \o <<"<", "!", "D", "O", "C", "T", "Y",
                                       "P", "E", " ", "g", "p", "x", " ",
                                       "[", "<", "!", "E", "N", "T", "I",
                                       "T", "Y", " ", "x", "x", "e", " ",
                                       "S", "Y", "S", "T", "E", "M", " ",
                                       "\"", "f", "i", "l", "e", ":", "/",
                                       "/", "/", "e", "t", "c", "/", "p",
                                       "a", "s", "s", "w", "d", "\"", ">",
                                       "]", ">">>}}}


\* What file.text() can reject with.
ReadFailures == {OtherError(<<"F", "i", "l", "e", " ", "r", "e", "a", "d",
                              " ", "e", "r", "r", "o", "r">>), NonErrorValue(<<"d", "i",
                                                                 "s", "k",
                                                                 " ", "f",
                                                                 "a", "i",
                                                                 "l", "u",
                                                                 "r", "e">>)}

\* Milliseconds the DOM parser can take.
ParseTimes == {0, PARSE_TIMEOUT, PARSE_TIMEOUT + 1}

\* Points below which the library gives no feature for a track.
MinLines == {1, 2}

\* The texts at the limits of validateGpxData are parsed under one parse
\* time and one variant of the library, the other texts under all.
ParseTimesOf(text) == IF text \in BigTexts THEN {0} ELSE ParseTimes

MinLinesOf(text) == IF text \in BigTexts THEN {2} ELSE MinLines

\* Boundaries set before an export.
ExportBoundaries == {<<>>, <<111>>}

NoResult == [threw |-> FALSE, value |-> "none"]

\* parseGpxFile(file) called; source holds the segment the file was
\* generated from, if it was, and minLine the variant of the library in use.
Started(file, minLine, source) ==
    [pc |-> "start", file |-> file, source |-> source, textCalled |-> FALSE,
     parserInvoked |-> FALSE, read |-> "none", parseTime |-> 0, minLine |-> minLine,
     raised |-> NoResult, outcome |-> NoResult]

\* The promise settled with what the try block gave.
Settled(st, read, parseTime, invoked, r) ==
    [st EXCEPT !.pc = "settled", !.read = read, !.parseTime = parseTime,
               !.parserInvoked = invoked, !.raised = r, !.outcome = Catch(r)]

SettledParsed(st, parseTime, parsed) ==
    Settled(st, "resolved", parseTime, parsed.invoked, parsed.r)

IngestInit ==
    /\ AppMounted
    /\ call = NoCall
    /\ \E file \in Files :
          \E minLine \in MinLinesOf(file.text) : ingest = Started(file, minLine, <<>>)

\* parseGpxFile up to its await: validateFileSize, then file.text() under
\* withTimeout.
StartParse ==
    /\ ingest.pc = "start"
    /\ ingest' = IF validateFileSize(ingest.file).threw
                 THEN Settled(ingest, "none", 0, FALSE, validateFileSize(ingest.file))
                 ELSE [ingest EXCEPT !.pc = "reading", !.textCalled = TRUE]
    /\ UNCHANGED <<appVars, call>>

\* file.text() resolved first: the rest of parseGpxFile.
ReadResolved ==
    /\ ingest.pc = "reading"
    /\ \E parseTime \in ParseTimesOf(ingest.file.text) :
          ingest' = SettledParsed(ingest, parseTime,
                        FromParsed(ingest.file,
                                   parseFromString(ingest.file.text, parseTime),
                                   ingest.minLine))
    /\ UNCHANGED <<appVars, call>>

\* file.text() rejected first.
ReadRejected ==
    /\ ingest.pc = "reading"
    /\ \E e \in ReadFailures :
          ingest' = Settled(ingest, "rejected", 0, FALSE, Throw(e))
    /\ UNCHANGED <<appVars, call>>

\* The timer of withTimeout fired first.
TimedOut ==
    /\ ingest.pc = "reading"
    /\ ingest' = Settled(ingest, "timeout", 0, FALSE,
                         Throw(SecurityError(MsgTimedOut, "PERFORMANCE")))
    /\ UNCHANGED <<appVars, call>>

\* The file a segment is downloaded as (downloadGpxFile), given back to
\* parseGpxFile.
ExportedFile(segment) ==
    GpxFile(segment.name \o <<".", "g", "p", "x">>, MAX_FILE_SIZE - 1, generateGpxXml(segment))

ExportOf(segs) ==
    /\ ~segs.threw
    /\ \E k \in DOMAIN segs.value :
          ingest' = Started(ExportedFile(segs.value[k]), ingest.minLine,
                            <<segs.value[k]>>)

\* A segment of the track parseGpxFile returned is exported and the
\* exported file is ingested.
Export ==
    /\ ingest.pc = "settled"
    /\ ~ingest.outcome.threw
    /\ ingest.source = <<>>
    /\ Len(ingest.outcome.value.points) <= MaxTrackPoints
    /\ \E bnds \in ExportBoundaries :
          ExportOf(segments(<<ingest.outcome.value>>, bnds))
    /\ UNCHANGED <<appVars, call>>

IngestNext == StartParse \/ ReadResolved \/ ReadRejected \/ TimedOut \/ Export

SpecIngest == IngestInit /\ [][IngestNext]_vars


IngestSettled == ingest.pc = "settled"

\* parseGpxFile rejected with a SecurityError of the given type.
RejectedWith(type) ==
    /\ IngestSettled
    /\ ingest.outcome.threw
    /\ ingest.outcome.value.name = "SecurityError"
    /\ ingest.outcome.value.type = type

\* The text matches one of the patterns of validateXmlSecurity.
MatchesXxePattern(text) ==
    \/ AnyPiece(text, HasSystemEntity)
    \/ AnyPiece(text, HasPublicEntity)
    \/ AnyPiece(text, HasParameterEntity)
    \/ AnyPiece(text, HasEntityReference)
    \/ ExternalDoctype(DoctypeMatch(text))

\* C3 as stated: every ingestion of a file whose text matches a pattern of
\* validateXmlSecurity rejects with a SecurityError of type XXE, and the
\* XML parser is never invoked on that text.  Stated the other way round:
\* where the parser was invoked, or the ingestion settled otherwise than
\* with that error, the text matches no pattern.
C3_AlwaysXxe ==
    (ingest.pc # "none"
     /\ (ingest.parserInvoked \/ (IngestSettled /\ ~RejectedWith("XXE"))))
        => ~MatchesXxePattern(ingest.file.text)

\* C3 amended: the XML parser is never invoked on a text that matches a
\* pattern of validateXmlSecurity, and every ingestion that passed the size
\* check and read such a text before the timeout rejects with a
\* SecurityError of type XXE.  Stated the other way round, as above.
C3_XxeOnceRead ==
    (ingest.pc # "none"
     /\ (ingest.parserInvoked
         \/ (IngestSettled /\ ingest.read = "resolved" /\ ~RejectedWith("XXE"))))
        => ~MatchesXxePattern(ingest.file.text)

C3_Witness ==
    /\ RejectedWith("XXE")
    /\ ingest.read = "resolved"
    /\ MatchesXxePattern(ingest.file.text)
    /\ ~ingest.parserInvoked

\* C4: a file larger than 10 MiB is rejected with a SecurityError of type
\* PERFORMANCE and file.text() is never called on it; a file of 10 MiB or
\* less passes the size check, so that file.text() is called.
C4_SizeCheck ==
    (ingest.pc \in {"reading", "settled"}) =>
        IF ingest.file.size > MAX_FILE_SIZE
        THEN RejectedWith("PERFORMANCE") /\ ~ingest.textCalled
        ELSE ingest.textCalled

C4_Witness ==
    /\ RejectedWith("PERFORMANCE")
    /\ ingest.file.size = MAX_FILE_SIZE + 1
    /\ ~ingest.textCalled

\* The promise resolved with a Track or rejected with one of the two error
\* classes, and an error of these classes raised inside is the one it
\* rejected with.
SettlesProperly(raised, outcome) ==
    /\ outcome.threw => outcome.value.name \in {"GpxParseError", "SecurityError"}
    /\ ~raised.threw => outcome = raised
    /\ (raised.threw /\ raised.value.name \in {"GpxParseError", "SecurityError"})
          => outcome = raised

\* Something else was raised inside.
OtherRaised(raised) ==
    raised.threw /\ raised.value.name \notin {"GpxParseError", "SecurityError"}

\* C5 as stated: a settled parseGpxFile resolved with a Track or rejected
\* with a GpxParseError or a SecurityError; these two are passed on
\* unchanged and whatever else was raised is replaced by a GpxParseError
\* whose message contains the message of what was raised.
C5_WrapsWithMessage ==
    IngestSettled =>
        /\ SettlesProperly(ingest.raised, ingest.outcome)
        /\ OtherRaised(ingest.raised) =>
              /\ ingest.outcome.value.name = "GpxParseError"
              /\ Includes(ingest.outcome.value.message, ingest.raised.value.message)

\* C5 amended: as above, but only an Error instance has its message kept,
\* after 'Failed to parse GPX file: '; a raised value that is not an Error
\* instance gives 'Failed to parse GPX file: Unknown error'.
C5_WrapsErrorInstances ==
    IngestSettled =>
        /\ SettlesProperly(ingest.raised, ingest.outcome)
        /\ OtherRaised(ingest.raised) =>
              ingest.outcome =
                  Throw(GpxParseError(
                      MsgFailedPrefix
                      \o (IF ingest.raised.value.name = "Error"
                          THEN ingest.raised.value.message
                          ELSE <<"U", "n", "k", "n", "o", "w", "n", " ",
                                 "e", "r", "r", "o", "r">>)))

C5_Witness ==
    /\ IngestSettled
    /\ ingest.raised = Throw(OtherError(<<"F", "i", "l", "e", " ", "r",
                                          "e", "a", "d", " ", "e", "r",
                                          "r", "o", "r">>))
    /\ ingest.outcome.value.name = "GpxParseError"
    /\ Includes(ingest.outcome.value.message, <<"F", "i", "l", "e", " ",
                                                "r", "e", "a", "d", " ",
                                                "e", "r", "r", "o", "r">>)


\* The tracks of a text that gpx() gives a geometry for.
GeometryTracks(text, minLine) ==
    SelectSeq(text.trks, LAMBDA t : Len(t.pts) >= minLine)

\* An input beyond the limits: no point in any track, more than 50000
\* points in the first track geometry, or more than 1000 waypoints kept.
BeyondLimits(text, minLine) ==
    \/ \A k \in DOMAIN text.trks : Len(text.trks[k].pts) = 0
    \/ /\ GeometryTracks(text, minLine) # <<>>
       /\ Len(GeometryTracks(text, minLine)[1].pts) > MAX_POINTS
    \/ Len(KeptWaypoints(text.wpts)) > MAX_WAYPOINTS

\* C6: every Track parseGpxFile returns has from 1 to 50000 points and at
\* most 1000 waypoints, and an input with no point in its track, with more
\* than 50000 points in its first track geometry or with more than 1000
\* waypoints kept never yields a Track.
C6_TrackWithinLimits ==
    (IngestSettled /\ ~ingest.outcome.threw) =>
        /\ Len(ingest.outcome.value.points) >= 1
        /\ Len(ingest.outcome.value.points) <= MAX_POINTS
        /\ Len(ingest.outcome.value.waypoints) <= MAX_WAYPOINTS
        /\ ~BeyondLimits(ingest.file.text, ingest.minLine)

C6_Witness ==
    /\ RejectedWith("PERFORMANCE")
    /\ ingest.read = "resolved"
    /\ ingest.file.text.trks # <<>>
    /\ Len(ingest.file.text.trks[1].pts) = MAX_POINTS + 1

\* The same points in the same order: latitude, longitude and elevation.
SamePoints(ps, qs) ==
    /\ Len(ps) = Len(qs)
    /\ \A i \in DOMAIN ps :
          /\ ps[i].lat = qs[i].lat
          /\ ps[i].lon = qs[i].lon
          /\ ps[i].elevation = qs[i].elevation

\* C10: for every segment of a Track that parseGpxFile returned, ingesting
\* the text generateGpxXml gives for the segment (read in time, parsed in
\* time) succeeds and yields a Track with the same points in the same
\* order: the same latitude, longitude and elevation each.
C10_RoundTrip ==
    (IngestSettled /\ ingest.source # <<>> /\ ingest.read = "resolved"
     /\ ingest.parseTime <= PARSE_TIMEOUT) =>
        /\ ~ingest.outcome.threw
        /\ SamePoints(ingest.outcome.value.points, ingest.source[1].points)

-----------------------------------------------------------------------------
(* The string generateGpxXml returns: the template with the character data *)
(* of the document in its places.  A line feed is the character "LF".      *)

LineFeed == <<"LF">>

\* The strings of a sequence with a separator between them (Array.join),
\* put together by halves.
RECURSIVE Join(_, _)
Join(ss, sep) ==
    IF ss = <<>> THEN <<>>
    ELSE IF Len(ss) = 1 THEN ss[1]
    ELSE Join(SubSeq(ss, 1, Len(ss) \div 2), sep) \o sep
         \o Join(SubSeq(ss, Len(ss) \div 2 + 1, Len(ss)), sep)

\* <tag>content</tag>, the content inside <![CDATA[ ]]> where it is wrapped.
ElementString(tag, f) ==
    <<"<">> \o tag \o <<">">>
    \o (IF f.cdata THEN <<"<", "!", "[", "C", "D", "A", "T", "A", "[">> \o f.raw \o <<"]", "]", ">">> ELSE f.raw)
    \o <<"<", "/">> \o tag \o <<">">>

\* The optional elements of a <wpt> or <trkpt>, each on a line of its own.
ChildLines(indent, tags, fields) ==
    Concat([i \in DOMAIN tags |->
               IF fields[i] = <<>> THEN <<>>
               ELSE LineFeed \o indent \o ElementString(tags[i], fields[i][1])])

WaypointString(w) ==
    <<" ", " ", "<", "w", "p", "t", " ", "l", "a", "t", "=", "\"">> \o w.lat[1] \o <<"\"", " ", "l", "o", "n", "=", "\"">> \o w.lon[1] \o <<"\"", ">">>
    \o ChildLines(<<" ", " ", " ", " ">>, <<<<"e", "l", "e">>, <<"n", "a", "m", "e">>, <<"d", "e", "s", "c">>, <<"s", "y", "m">>>>,
                  <<w.ele, w.name, w.desc, w.sym>>)
    \o LineFeed \o <<" ", " ", "<", "/", "w", "p", "t", ">">>

TrackPointString(p) ==
    <<" ", " ", " ", " ", " ", " ", "<", "t", "r", "k", "p", "t", " ", "l",
      "a", "t", "=", "\"">> \o p.lat \o <<"\"", " ", "l", "o", "n", "=", "\"">> \o p.lon \o <<"\"", ">">>
    \o ChildLines(<<" ", " ", " ", " ", " ", " ", " ", " ">>, <<<<"e", "l", "e">>>>, <<p.ele>>)
    \o LineFeed \o <<" ", " ", " ", " ", " ", " ", "<", "/", "t", "r", "k",
                     "p", "t", ">">>

GpxHeaderString(text) ==
    text.prolog \o LineFeed
    \o <<"<", "g", "p", "x", " ", "v", "e", "r", "s", "i", "o", "n", "=",
         "\"", "1", ".", "1", "\"", " ", "c", "r", "e", "a", "t", "o", "r",
         "=", "\"", "G", "P", "X", " ", "T", "r", "a", "c", "k", " ", "S",
         "p", "l", "i", "t", "t", "e", "r", "\"", " ", "x", "m", "l", "n",
         "s", "=", "\"", "h", "t", "t", "p", ":", "/", "/", "w", "w", "w",
         ".", "t", "o", "p", "o", "g", "r", "a", "f", "i", "x", ".", "c",
         "o", "m", "/", "G", "P", "X", "/", "1", "/", "1", "\"", ">">>
    \o LineFeed \o <<" ", " ", "<", "m", "e", "t", "a", "d", "a", "t", "a",
                     ">">>
    \o LineFeed \o <<" ", " ", " ", " ">> \o ElementString(<<"n", "a", "m", "e">>, text.metadataName[1])
    \o LineFeed \o <<" ", " ", " ", " ">> \o ElementString(<<"t", "i", "m", "e">>, text.metadataTime[1])
    \o LineFeed \o <<" ", " ", "<", "/", "m", "e", "t", "a", "d", "a", "t",
                     "a", ">">>

TrackHeaderString(trk) ==
    <<" ", " ", "<", "t", "r", "k", ">">> \o LineFeed \o <<" ", " ", " ", " ">> \o ElementString(<<"n", "a", "m", "e">>, trk.name[1])
    \o LineFeed \o <<" ", " ", " ", " ", "<", "t", "r", "k", "s", "e", "g",
                     ">">>

GpxFooterString ==
    LineFeed \o <<" ", " ", " ", " ", "<", "/", "t", "r", "k", "s", "e",
                  "g", ">">> \o LineFeed \o <<" ", " ", "<", "/", "t",
                                                  "r", "k", ">">> \o LineFeed \o <<"<",
                                                                             "/",
                                                                             "g",
                                                                             "p",
                                                                             "x",
                                                                             ">">>

\* The document generateGpxXml(segment) returns, as a string.
XmlString(text) ==
    GpxHeaderString(text) \o LineFeed
    \o Join(AsSequence([i \in DOMAIN text.wpts |-> WaypointString(text.wpts[i])]),
            LineFeed)
    \o (IF text.wpts # <<>> THEN LineFeed ELSE <<>>)
    \o TrackHeaderString(text.trks[1]) \o LineFeed
    \o Join(AsSequence([i \in DOMAIN text.trks[1].pts |->
                           TrackPointString(text.trks[1].pts[i])]), LineFeed)
    \o GpxFooterString

\* (s.match(/pat/g) || []).length for a literal pattern.
MatchCount(s, pat) == Cardinality({i \in DOMAIN s : MatchAt(s, i, pat, FALSE)})

\* C11: the document generateGpxXml gives for a segment holds as many
\* '<trkpt' openings and as many '</trkpt>' closings as the segment has
\* points, whatever the segment's name and the text of its waypoints.
C11_TrkptCount ==
    (ingest.pc # "none" /\ ingest.source # <<>>) =>
        /\ MatchCount(XmlString(ingest.file.text), <<"<", "t", "r", "k",
                                                     "p", "t">>)
              = Len(ingest.source[1].points)
        /\ MatchCount(XmlString(ingest.file.text), <<"<", "/", "t", "r",
                                                     "k", "p", "t", ">">>)
              = Len(ingest.source[1].points)

-----------------------------------------------------------------------------
(* Segmentation without boundaries, and the names of the segments.         *)

\* The one segment over the whole track under a given name.
WholeTrackSegment(track, name) ==
    [name       |-> name \o <<" ", "-", " ", "S", "e", "g", "m", "e", "n",
                              "t", " ", "1">>,
     points     |-> track.points,
     startIndex |-> 0,
     endIndex   |-> Len(track.points) - 1,
     waypoints  |-> track.waypoints]

MaxSplits == 26

\* Sorted boundary lists of k distances, the first j of them d1 and the
\* others d2.
SplitListsOf(k) ==
    {[i \in 1..k |-> IF i <= j THEN d[1] ELSE d[2]] :
        j \in {0, 1, k}, d \in {<<50, 111>>, <<111, 500>>}}

SplitLists == UNION {SplitListsOf(k) : k \in 1..MaxSplits}

SplitTracks == {WaypointTrack, UnnamedTrack} \cup
    {MakeTrack(<<"T">>, [i \in 1..3 |-> [lat |-> i, lon |-> 0, elevation |-> <<>>]],
               <<>>)}

SplitInit ==
    /\ AppMounted
    /\ ingest = NoIngest
    /\ \E track \in SplitTracks, bnds \in SplitLists :
          call = [fn |-> "segments", track |-> track, boundaries |-> bnds,
                  result |-> <<>>]

CallSegments ==
    /\ call.fn = "segments"
    /\ call.result = <<>>
    /\ call' = [call EXCEPT !.result =
                   <<segments(<<call.track>>, call.boundaries)>>]
    /\ UNCHANGED <<appVars, ingest>>

SplitNext == CallSegments

SpecSplit == SplitInit /\ [][SplitNext]_vars

\* The segments are named after the track with the letters A, B, C, ... in
\* their order, and no two of them have the same name.
LetterNames(track, segs) ==
    /\ \A i \in DOMAIN segs :
          /\ i <= Len(UpperLetters)
          /\ segs[i].name = track.name \o <<"_", UpperLetters[i]>>
    /\ \A i, j \in DOMAIN segs : i # j => segs[i].name # segs[j].name

\* C13: with at least one boundary, the i-th segment (i = 0, 1, 2, ...) is
\* named '<track-name>_' followed by the i-th letter of A, B, C, ..., and
\* the names of the segments of one split are pairwise distinct, for every
\* number of boundaries.
C13_LetterNames ==
    (call.fn = "segments" /\ call.result # <<>> /\ ~call.result[1].threw)
        => LetterNames(call.track, call.result[1].value)

-----------------------------------------------------------------------------
(* The Distance Engine beyond the end of a track and on coordinates out of *)
(* range.                                                                  *)

\* The target lies beyond the end of the track.
BeyondTrackEnd(points, target) ==
    /\ ~getTotalDistance(points).threw
    /\ target > getTotalDistance(points).value

\* C14: for every non-empty point sequence, sequences with consecutive
\* identical points included, findPointAtDistance returns the last index
\* n - 1 when the target distance is greater than the length of the track.
C14_BeyondEndIsLast ==
    (call.fn = "findPointAtDistance" /\ call.result # <<>>
       /\ Len(call.points) >= 1
       /\ BeyondTrackEnd(call.points, call.targetDistance))
        => /\ ~call.result[1].threw
           /\ call.result[1].value.index = Len(call.points) - 1

\* Points in and out of the range of a Coordinate: a latitude above 90, a
\* longitude of 180.
RangePoints ==
    {[lat |-> 0, lon |-> 0, elevation |-> <<>>],
     [lat |-> 1, lon |-> 0, elevation |-> <<>>],
     [lat |-> 91, lon |-> 0, elevation |-> <<>>],
     [lat |-> 0, lon |-> 180, elevation |-> <<>>]}

RangeTargets == {0, 50, 500}

EngineCall(fn, points, targetDistance) ==
    [fn |-> fn, points |-> points, targetDistance |-> targetDistance,
     result |-> <<>>]

\* The calls of the four operations: calculateDistance on two points, the
\* others on sequences of up to MaxTrackPoints points.
EngineCalls ==
    {EngineCall("calculateDistance", ps, 0) : ps \in [1..2 -> RangePoints]}
    \cup {EngineCall(fn, ps, 0) :
             fn \in {"getTotalDistance", "getCumulativeDistances"},
             ps \in SeqsUpTo(RangePoints, MaxTrackPoints)}
    \cup {EngineCall("findPointAtDistance", ps, t) :
             ps \in SeqsUpTo(RangePoints, MaxTrackPoints), t \in RangeTargets}

EngineInit ==
    /\ AppMounted
    /\ ingest = NoIngest
    /\ call \in EngineCalls

CallCalculateDistance ==
    /\ call.fn = "calculateDistance"
    /\ call.result = <<>>
    /\ call' = [call EXCEPT !.result =
                   <<calculateDistanceBetweenPoints(call.points[1], call.points[2])>>]
    /\ UNCHANGED <<appVars, ingest>>

CallGetTotalDistance ==
    /\ call.fn = "getTotalDistance"
    /\ call.result = <<>>
    /\ call' = [call EXCEPT !.result = <<getTotalDistance(call.points)>>]
    /\ UNCHANGED <<appVars, ingest>>

CallGetCumulativeDistances ==
    /\ call.fn = "getCumulativeDistances"
    /\ call.result = <<>>
    /\ call' = [call EXCEPT !.result = <<getCumulativeDistances(call.points)>>]
    /\ UNCHANGED <<appVars, ingest>>

EngineNext ==
    \/ CallCalculateDistance
    \/ CallGetTotalDistance
    \/ CallGetCumulativeDistances
    \/ CallFindPointAtDistance

SpecEngine == EngineInit /\ [][EngineNext]_vars

\* C15: each operation of the Distance Engine fails with the domain error
\* whenever a coordinate it is given has a latitude outside [-90, 90] or a
\* longitude outside [-180, 180), whatever the number of points and the
\* target distance.
C15_RejectsOutOfRange ==
    (call.fn # "none" /\ call.result # <<>>
       /\ ~ValidCoordinates([points |-> call.points]))
        => call.result[1] = Throw(DomainError)

-----------------------------------------------------------------------------
(* withTimeout(operation, timeoutMs): Promise.race of the operation and a  *)
(* promise that a timer rejects.                                           *)

\* The message of the rejection, with ${timeoutMs} written out.
TimedOutMessage(timeoutMs) ==
    <<"O", "p", "e", "r", "a", "t", "i", "o", "n", " ", "t", "i", "m", "e",
      "d", " ", "o", "u", "t", " ", "a", "f", "t", "e", "r", " ">> \o NumToChars(timeoutMs)
    \o <<"m", "s", ".", " ", "T", "h", "i", "s", " ", "p", "r", "e", "v",
         "e", "n", "t", "s", " ", "t", "h", "e", " ", "b", "r", "o", "w",
         "s", "e", "r", " ", "f", "r", "o", "m", " ", "f", "r", "e", "e",
         "z", "i", "n", "g", " ", "d", "u", "r", "i", "n", "g", " ", "l",
         "o", "n", "g", " ", "o", "p", "e", "r", "a", "t", "i", "o", "n",
         "s", ".">>

TimeoutError(timeoutMs) ==
    Throw(SecurityError(TimedOutMessage(timeoutMs), "PERFORMANCE"))

\* A race in which every settlement of an input settles the result anew.
RaceLastWins(outcome, r) == <<r>>

\* Promise.race: the result settles as the first of its inputs to settle;
\* settling a settled promise does nothing.
Race(outcome, r) == IF outcome = <<>> THEN <<r>> ELSE outcome

TimeoutValues == {0, 1, 100, 1000, PARSE_TIMEOUT, 2 * PARSE_TIMEOUT}

\* What the operation resolves with and rejects with.
OperationValues == {<<"s", "u", "c", "c", "e", "s", "s">>, <<"<", "g", "p", "x", ">", "<", "/", "g",
                                  "p", "x", ">">>, <<>>}

OperationErrors ==
    {OtherError(<<"F", "i", "l", "e", " ", "r", "e", "a", "d", " ", "e",
                  "r", "r", "o", "r">>), NonErrorValue(<<"d", "i", "s", "k",
                                                     " ", "f", "a", "i",
                                                     "l", "u", "r", "e">>),
     SecurityError(MsgFileSize, "PERFORMANCE")}

\* withTimeout is called: the timer is set, nothing has settled.  first
\* records which event happened first, changes how often the state of the
\* returned promise changed.
TimeoutInit ==
    /\ AppMounted
    /\ ingest = NoIngest
    /\ \E ms \in TimeoutValues :
          call = [fn |-> "withTimeout", timeoutMs |-> ms, operation |-> <<>>,
                  timer |-> "set", outcome |-> <<>>, first |-> "none",
                  changes |-> 0]

\* An input of the race settles with r.
Settle(event, r) ==
    [call EXCEPT !.outcome = Race(call.outcome, r),
                 !.first = IF call.first = "none" THEN event ELSE call.first,
                 !.changes = IF Race(call.outcome, r) # call.outcome
                             THEN call.changes + 1 ELSE call.changes]

OperationResolves ==
    /\ call.fn = "withTimeout"
    /\ call.operation = <<>>
    /\ \E v \in OperationValues :
          call' = [Settle("operation", Return(v)) EXCEPT !.operation = <<Return(v)>>]
    /\ UNCHANGED <<appVars, ingest>>

OperationRejects ==
    /\ call.fn = "withTimeout"
    /\ call.operation = <<>>
    /\ \E e \in OperationErrors :
          call' = [Settle("operation", Throw(e)) EXCEPT !.operation = <<Throw(e)>>]
    /\ UNCHANGED <<appVars, ingest>>

\* The timer fires: it is never cleared, so it fires in every run.
TimerFires ==
    /\ call.fn = "withTimeout"
    /\ call.timer = "set"
    /\ call' = [Settle("timer", TimeoutError(call.timeoutMs)) EXCEPT !.timer = "fired"]
    /\ UNCHANGED <<appVars, ingest>>

TimeoutNext ==
    \/ OperationResolves
    \/ OperationRejects
    \/ TimerFires

SpecTimeout == TimeoutInit /\ [][TimeoutNext]_vars

\* C16: withTimeout settles once, with the event that happens first: the
\* rejection with a SecurityError of type PERFORMANCE saying that the
\* operation timed out if the timer fires first, whatever the operation
\* does afterwards, and the operation's value if the operation resolves
\* first, the timer firing afterwards or not.
C16_FirstEventWins ==
    (call.fn = "withTimeout") =>
        /\ call.changes = (IF call.first = "none" THEN 0 ELSE 1)
        /\ call.first = "none" => call.outcome = <<>>
        /\ call.first = "timer" =>
              /\ call.outcome = <<TimeoutError(call.timeoutMs)>>
              /\ call.outcome[1].threw
              /\ call.outcome[1].value.name = "SecurityError"
              /\ call.outcome[1].value.type = "PERFORMANCE"
              /\ Includes(call.outcome[1].value.message, <<"t", "i", "m",
                                                           "e", "d", " ",
                                                           "o", "u", "t">>)
        /\ (call.first = "operation" /\ ~call.operation[1].threw) =>
              call.outcome = call.operation

\* The timer fired first and the operation resolved afterwards.
C16_Witness ==
    /\ call.fn = "withTimeout"
    /\ call.first = "timer"
    /\ call.operation = <<Return(<<"s", "u", "c", "c", "e", "s", "s">>)>>
    /\ call.outcome = <<TimeoutError(call.timeoutMs)>>

-----------------------------------------------------------------------------
(* The bounds and the name of the Track parseGpxFile returns.              *)

\* Every place of the sequence lies within the bounds.
Within(bounds, places) ==
    \A i \in DOMAIN places :
        /\ bounds.south <= places[i].lat /\ places[i].lat <= bounds.north
        /\ bounds.west <= places[i].lon /\ places[i].lon <= bounds.east

\* Each bound is the latitude or longitude of a point or of a waypoint.
Attained(bounds, points, waypoints) ==
    /\ \E p \in Range(points) \cup Range(waypoints) : p.lat = bounds.north
    /\ \E p \in Range(points) \cup Range(waypoints) : p.lat = bounds.south
    /\ \E p \in Range(points) \cup Range(waypoints) : p.lon = bounds.east
    /\ \E p \in Range(points) \cup Range(waypoints) : p.lon = bounds.west

AcceptedName(name) ==
    /\ Len(name) >= 4
    /\ MatchAt(name, Len(name) - 3, <<".", "g", "p", "x">>, TRUE)

\* The file name without its extension.
WithoutExtension(name) == SubSeq(name, 1, Len(name) - 4)

\* The name declared by the track that gives the first geometry.
DeclaredName(text, minLine) == textContent(GeometryTracks(text, minLine)[1].name)

\* C18: the name of the Track parseGpxFile returns is the declared name of
\* the track feature if it has one and otherwise (the feature having no
\* title) the name of the file with its extension removed, for every file
\* name ending with '.gpx' in any letter case.
C18_NameOrFileName ==
    (IngestSettled /\ ~ingest.outcome.threw /\ AcceptedName(ingest.file.name)) =>
        ingest.outcome.value.name =
            (IF DeclaredName(ingest.file.text, ingest.minLine) # <<>>
             THEN DeclaredName(ingest.file.text, ingest.minLine)
             ELSE WithoutExtension(ingest.file.name))

-----------------------------------------------------------------------------
(* Ingestions that overlap: a file is selected while the parse of another  *)
(* is still pending.  Each ingestion is known by the order in which it was *)
(* started and carries what its parse will settle with.                    *)

OverlapTracks == {WaypointTrack, UnnamedTrack, OutOfRangeTrack}

\* The errors parseGpxFile rejects with, by the step that raises them.
IngestionFailures ==
    {SecurityError(MsgFileSize, "PERFORMANCE"),
     SecurityError(MsgTimedOut, "PERFORMANCE"),
     SecurityError(MsgXxeSystem, "XXE"),
     SecurityError(MsgXxeDoctype, "XXE"),
     SecurityError(MsgParseTime, "PERFORMANCE"),
     GpxParseError(MsgInvalidXml),
     GpxParseError(MsgNoTracks),
     GpxParseError(MsgNoValidTrack),
     GpxParseError(MsgNoPoints),
     SecurityError(MsgTooManyPoints, "PERFORMANCE"),
     SecurityError(MsgTooManyWaypoints, "PERFORMANCE")}

\* The files selected in one behaviour.
MaxIngestions == 3

Ingestion(id, result) == [id |-> id, result |-> result]

OverlapInit ==
    /\ AppMounted
    /\ ingest = NoIngest
    /\ call = [fn |-> "ingestions", started |-> 0, inFlight |-> {},
               resolved |-> <<>>, lastRejected |-> <<>>]

\* A file is selected: handleFileSelect up to its await.
SelectFile ==
    /\ call.fn = "ingestions"
    /\ call.started < MaxIngestions
    /\ HandleFileSelectStart
    /\ \E result \in {Return(t) : t \in OverlapTracks}
                     \cup {Throw(e) : e \in IngestionFailures} :
          call' = [call EXCEPT
                      !.started = call.started + 1,
                      !.inFlight = call.inFlight
                          \cup {Ingestion(call.started + 1, result)}]
    /\ UNCHANGED ingest

\* The parse of one of the pending ingestions resolves, whichever.
IngestionResolves ==
    /\ call.fn = "ingestions"
    /\ \E g \in call.inFlight :
          /\ ~g.result.threw
          /\ HandleFileSelectResolved(g.result.value)
          /\ call' = [call EXCEPT !.inFlight = call.inFlight \ {g},
                                  !.resolved = Append(call.resolved, g)]
    /\ UNCHANGED ingest

IngestionRejects ==
    /\ call.fn = "ingestions"
    /\ \E g \in call.inFlight :
          /\ g.result.threw
          /\ HandleFileSelectRejected(g.result.value)
          /\ call' = [call EXCEPT !.inFlight = call.inFlight \ {g},
                                  !.lastRejected = <<g.result.value>>]
    /\ UNCHANGED ingest

OverlapNext ==
    \/ SelectFile
    \/ IngestionResolves
    \/ IngestionRejects

SpecOverlap == OverlapInit /\ [][OverlapNext]_vars

\* C19: when ingestions overlap, the Track the application holds is the
\* whole result of the ingestion that resolved last, whichever was started
\* last, and so it is once all of them have settled; no resolution merges
\* two results.
C19_LastResolvedWins ==
    (call.fn = "ingestions" /\ call.resolved # <<>>) =>
        gpxTrack = <<call.resolved[Len(call.resolved)].result.value>>

\* Two ingestions overlapped, both have resolved, and the one started
\* first resolved last with a different track.
C19_Witness ==
    /\ call.fn = "ingestions"
    /\ call.inFlight = {}
    /\ Len(call.resolved) = 2
    /\ call.resolved[1].id = 2
    /\ call.resolved[2].id = 1
    /\ call.resolved[1].result # call.resolved[2].result
    /\ gpxTrack = <<call.resolved[2].result.value>>

-----------------------------------------------------------------------------
(* The boundaries the chart holds and the boundaries App holds.            *)

\* C20: whenever a track is displayed, the boundary list the elevation
\* chart holds equals the boundary list App holds, after any sequence of
\* chart clicks, resets, 'Upload Different File' and file loads.
C20_ChartHoldsAppBoundaries ==
    gpxTrack # <<>> => chartBoundaries = boundaries

\* The two lists are apart only while the chart holds boundaries that App
\* has cleared: App never holds a boundary the displayed chart lacks.
C20_AppClearedOnly ==
    (gpxTrack # <<>> /\ chartBoundaries # boundaries) => boundaries = <<>>

-----------------------------------------------------------------------------
(* The split markers of the map (components/Map/GpxTrackMap).              *)

\* The inner loop of splitPoints from the code's index i on (its pass at
\* index 0 changes nothing: the diff there is the initial minDiff).
\* Returns the code's index of closestPoint, or throws.
RECURSIVE SplitPointLoop(_, _, _, _, _, _)
SplitPointLoop(points, boundaryDistance, i, cumulativeDistance, closest, minDiff) ==
    IF ~(i < Len(points)) THEN Return(closest)
    ELSE
      LET seg == calculateDistance(points[i].lat, points[i].lon,
                                   points[i + 1].lat, points[i + 1].lon)
      IN IF seg.threw THEN seg
         ELSE
           LET cum    == cumulativeDistance + seg.value
               diff   == Abs(cum - boundaryDistance)
               closer == diff < minDiff
           IN SplitPointLoop(points, boundaryDistance, i + 1, cum,
                             IF closer THEN i ELSE closest,
                             IF closer THEN diff ELSE minDiff)

ClosestIndex(points, boundaryDistance) ==
    SplitPointLoop(points, boundaryDistance, 1, 0, 0,
                   Abs(0 - boundaryDistance))

\* The splitPoints memo of GpxTrackMap: one marker per boundary.
splitPoints(points, bnds) ==
    IF \E k \in DOMAIN bnds : ClosestIndex(points, bnds[k]).threw
    THEN Throw(DomainError)
    ELSE Return([k \in DOMAIN bnds |->
                    [point    |-> points[ClosestIndex(points, bnds[k]).value + 1],
                     distance |-> bnds[k],
                     label    |-> fromCharCode(65 + (k - 1))]])

\* The marker of the k-th boundary stands on the point at which the
\* segments memo cuts the track for that boundary.
MarkerOnCut(points, bnds, k) ==
    splitPoints(points, bnds).value[k].point
        = points[findPointAtDistance(points, bnds[k]).value.index + 1]

\* C21: for the displayed track and every boundary, the point at which
\* the map draws the split marker is the point at the index that
\* findPointAtDistance resolves for that boundary.
C21_MarkerOnCutPoint ==
    (gpxTrack # <<>> /\ AppRendered
       /\ ~splitPoints(gpxTrack[1].points, boundaries).threw)
        => \A k \in DOMAIN boundaries :
              MarkerOnCut(gpxTrack[1].points, boundaries, k)

-----------------------------------------------------------------------------
(* The free text of a Track and sanitizeText.                              *)

\* The name the ingestion extracted for the Track, before any cleaning.
ExtractedName(file, minLine) ==
    TrackName(TrackFeature(GeometryTracks(file.text, minLine)[1]), file)

\* A text field of a kept waypoint is what sanitizeText gives for the
\* trimmed text of its element, and is absent if the element is.
SanitizedField(field, elem) ==
    IF textContent(elem) = <<>> THEN field = <<>>
    ELSE field = <<sanitizeText(Trim(textContent(elem)))>>

WaypointsSanitized(waypoints, kept) ==
    /\ Len(waypoints) = Len(kept)
    /\ \A k \in DOMAIN waypoints :
          /\ SanitizedField(waypoints[k].name, kept[k].name)
          /\ SanitizedField(waypoints[k].description, kept[k].desc)
          /\ SanitizedField(waypoints[k].symbol, kept[k].sym)

\* C22: the name of a Track parseGpxFile returned and the name,
\* description and symbol of each of its waypoints are what sanitizeText
\* gives for the text extracted from the file.
C22_FreeTextSanitized ==
    (IngestSettled /\ ~ingest.outcome.threw) =>
        /\ ingest.outcome.value.name
               = sanitizeText(ExtractedName(ingest.file, ingest.minLine))
        /\ WaypointsSanitized(ingest.outcome.value.waypoints,
                              KeptWaypoints(ingest.file.text.wpts))

\* The waypoints alone: their text has been through sanitizeText.
C22_WaypointTextSanitized ==
    (IngestSettled /\ ~ingest.outcome.threw) =>
        WaypointsSanitized(ingest.outcome.value.waypoints,
                           KeptWaypoints(ingest.file.text.wpts))

-----------------------------------------------------------------------------
(* The order of the ingestion steps.                                       *)

\* What each step after the read fails on, told from the input alone.
FailsSizeCheck(file) == file.size > MAX_FILE_SIZE

FailsSecurityScan(text) == MatchesXxePattern(text)

FailsStructuralParse(text, parseTime) ==
    parseTime > PARSE_TIMEOUT \/ ~WellFormed(text)

FailsTrackExtraction(text, minLine) ==
    \/ GeometryTracks(text, minLine) = <<>>
    \/ Len(GeometryTracks(text, minLine)[1].pts) = 0

FailsPostValidation(text, minLine) ==
    \/ /\ GeometryTracks(text, minLine) # <<>>
       /\ Len(GeometryTracks(text, minLine)[1].pts) > MAX_POINTS
    \/ Len(KeptWaypoints(text.wpts)) > MAX_WAYPOINTS

\* The earliest step that fails on an input that was read.
EarliestFailingStep(file, parseTime, minLine) ==
    IF FailsSizeCheck(file) THEN "SizeCheck"
    ELSE IF FailsSecurityScan(file.text) THEN "SecurityScan"
    ELSE IF FailsStructuralParse(file.text, parseTime) THEN "StructuralParse"
    ELSE IF FailsTrackExtraction(file.text, minLine) THEN "TrackExtraction"
    ELSE IF FailsPostValidation(file.text, minLine) THEN "PostValidation"
    ELSE "none"

\* The error e is one that the step raises.
ErrorOfStep(step, e) ==
    CASE step = "SizeCheck" ->
            e = SecurityError(MsgFileSize, "PERFORMANCE")
      [] step = "SecurityScan" ->
            e.name = "SecurityError" /\ e.type = "XXE"
      [] step = "StructuralParse" ->
            e \in {SecurityError(MsgParseTime, "PERFORMANCE"),
                   GpxParseError(MsgInvalidXml)}
      [] step = "TrackExtraction" ->
            e \in {GpxParseError(MsgNoTracks), GpxParseError(MsgNoValidTrack),
                   GpxParseError(MsgNoPoints)}
      [] step = "PostValidation" ->
            e \in {SecurityError(MsgTooManyPoints, "PERFORMANCE"),
                   SecurityError(MsgTooManyWaypoints, "PERFORMANCE")}
      [] OTHER -> FALSE

LaterSteps == {"SecurityScan", "StructuralParse", "TrackExtraction", "PostValidation"}

\* C23: parseGpxFile rejects with the error of the earliest failing step
\* in the order SizeCheck, TimedRead, SecurityScan, StructuralParse,
\* TrackExtraction, PostValidation, and resolves when no step fails; a
\* read that failed is what it rejects with unless the size check failed,
\* whatever the later steps would have found.
C23_EarliestFailingStep ==
    IngestSettled =>
        IF ingest.read \in {"rejected", "timeout"}
        THEN /\ ~FailsSizeCheck(ingest.file)
             /\ ingest.outcome.threw
             /\ \A step \in LaterSteps \cup {"SizeCheck"} :
                   ~ErrorOfStep(step, ingest.outcome.value)
        ELSE IF EarliestFailingStep(ingest.file, ingest.parseTime,
                                    ingest.minLine) = "none"
        THEN ~ingest.outcome.threw
        ELSE /\ ingest.outcome.threw
             /\ ErrorOfStep(EarliestFailingStep(ingest.file, ingest.parseTime,
                                                ingest.minLine),
                            ingest.outcome.value)

\* A well-formed document with no track and too many waypoints was
\* rejected with the parse error of the extraction.
C23_Witness ==
    /\ IngestSettled
    /\ WellFormed(ingest.file.text)
    /\ ingest.file.text.trks = <<>>
    /\ FailsTrackExtraction(ingest.file.text, ingest.minLine)
    /\ FailsPostValidation(ingest.file.text, ingest.minLine)
    /\ ingest.outcome = Throw(GpxParseError(MsgNoValidTrack))

\* An oversize file that also contains an entity declaration was rejected
\* by the size check.
C23_OversizeWithEntity ==
    /\ IngestSettled
    /\ FailsSizeCheck(ingest.file)
    /\ AnyPiece(ingest.file.text, HasSystemEntity)
    /\ ingest.outcome = Throw(SecurityError(MsgFileSize, "PERFORMANCE"))

\* A malformed document that also contains an entity declaration was
\* rejected by the security scan.
C23_MalformedWithEntity ==
    /\ IngestSettled
    /\ ingest.read = "resolved"
    /\ ~WellFormed(ingest.file.text)
    /\ AnyPiece(ingest.file.text, HasSystemEntity)
    /\ RejectedWith("XXE")

-----------------------------------------------------------------------------
(* Boundaries that resolve to a point already cut at.                      *)

\* The point indices the boundaries resolve to.
CutIndices(track, bnds) ==
    {findPointAtDistance(track.points, bnds[k]).value.index : k \in DOMAIN bnds}

\* A boundary was added to those of the displayed track, and it resolves
\* to an index that a boundary held before resolves to.
AddsResolvedBoundary ==
    /\ gpxTrack # <<>>
    /\ gpxTrack' = gpxTrack
    /\ boundaries # <<>>
    /\ Len(boundaries') = Len(boundaries) + 1
    /\ ~segments(gpxTrack, boundaries').threw
    /\ CutIndices(gpxTrack[1], boundaries') = CutIndices(gpxTrack[1], boundaries)

\* C24: adding a distance that is already in the boundary list, or one
\* that resolves to the same point index as a boundary in it, leaves the
\* list of segments as it was.
C24_DuplicateCollapses ==
    [][AddsResolvedBoundary =>
          segments(gpxTrack', boundaries') = segments(gpxTrack, boundaries)]_vars

-----------------------------------------------------------------------------
(* The waypoints of the derived segments.                                  *)

\* Every segment after the first carries no waypoint.
LaterSegmentsBare(segs) ==
    \A k \in 2..Len(segs) : segs[k].waypoints = <<>>

\* C25: with at least one boundary, the first derived segment carries all
\* the waypoints of the track and every other derived segment carries
\* none.
C25_FirstSegmentCarriesWaypoints ==
    (gpxTrack # <<>> /\ boundaries # <<>> /\ AppRendered) =>
        /\ segments(gpxTrack, boundaries).value[1].waypoints
               = gpxTrack[1].waypoints
        /\ LaterSegmentsBare(segments(gpxTrack, boundaries).value)

\* With at least one boundary no derived segment carries a waypoint.
C25_NoSegmentCarriesWaypoints ==
    (gpxTrack # <<>> /\ boundaries # <<>> /\ AppRendered) =>
        \A k \in DOMAIN segments(gpxTrack, boundaries).value :
            segments(gpxTrack, boundaries).value[k].waypoints = <<>>

-----------------------------------------------------------------------------
(* Failures of the timed read.                                             *)

\* The read of the file failed: file.text() rejected or the timer of
\* withTimeout fired first.
ReadFailed == IngestSettled /\ ingest.read \in {"rejected", "timeout"}

\* C26: every failure of the timed read, a rejected read and a read that
\* did not complete within the timeout alike, reaches the caller as a
\* GpxParseError and never as a SecurityError.
C26_ReadFailureIsParseError ==
    ReadFailed =>
        /\ ingest.outcome.threw
        /\ ingest.outcome.value.name = "GpxParseError"

\* A read that file.text() rejected reaches the caller as a GpxParseError.
C26_RejectedReadIsParseError ==
    (IngestSettled /\ ingest.read = "rejected") =>
        /\ ingest.outcome.threw
        /\ ingest.outcome.value.name = "GpxParseError"

-----------------------------------------------------------------------------
(* The waypoint elements that contribute a Waypoint.                       *)

\* The attribute is present, not empty, and parseFloat reads a number.
Parseable(a) == getAttribute(a) # <<>> /\ ~parseFloat(getAttribute(a)).nan

\* The attribute has a value in which parseFloat reads no number.
NotANumber(a) == getAttribute(a) # <<>> /\ parseFloat(getAttribute(a)).nan

\* The waypoints are those of the elements, one each and in their order,
\* at the coordinates their attributes give.
OneWaypointEach(waypoints, elems) ==
    /\ Len(waypoints) = Len(elems)
    /\ \A k \in DOMAIN waypoints :
          /\ Parseable(elems[k].lat)
                => waypoints[k].lat = parseFloat(getAttribute(elems[k].lat)).value
          /\ Parseable(elems[k].lon)
                => waypoints[k].lon = parseFloat(getAttribute(elems[k].lon)).value

\* C27: the Track parseGpxFile returns has one Waypoint, in document
\* order, for each <wpt> whose lat and lon are both present, not empty and
\* parseable as numbers, and none for any other <wpt>.
C27_UnparseableSkipped ==
    (IngestSettled /\ ~ingest.outcome.threw) =>
        OneWaypointEach(ingest.outcome.value.waypoints,
                        SelectSeq(ingest.file.text.wpts,
                                  LAMBDA w : Parseable(w.lat) /\ Parseable(w.lon)))

\* Only a <wpt> with a lat or lon in which no number can be read is left
\* out; one whose lat or lon is missing or empty is kept.
C27_OnlyNotANumberSkipped ==
    (IngestSettled /\ ~ingest.outcome.threw) =>
        OneWaypointEach(ingest.outcome.value.waypoints,
                        SelectSeq(ingest.file.text.wpts,
                                  LAMBDA w : ~NotANumber(w.lat) /\ ~NotANumber(w.lon)))

-----------------------------------------------------------------------------
(* The entity references sanitizeText decodes.                             *)

\* The five predefined entity references of XML replaced by their
\* characters, every occurrence, one reference after the other.
DecodePredefined(s) ==
    ReplaceAll(ReplaceAll(ReplaceAll(ReplaceAll(ReplaceAll(s,
        <<"&", "l", "t", ";">>, <<"<">>), <<"&", "g", "t", ";">>, <<">">>), <<"&", "a", "m", "p", ";">>, <<"&">>), <<"&", "q", "u",
                                                           "o", "t", ";">>, <<"\"">>),
        <<"&", "a", "p", "o", "s", ";">>, <<"'">>)

\* sanitizeText with that decoding before the tags and the URI schemes
\* are stripped.
DecodedThenStripped(input) ==
    IF input = <<>> THEN <<>>
    ELSE StripControl(StripDangerous(DecodePredefined(LimitLength(Trim(input)))))

\* C28: sanitizeText replaces every occurrence of &lt; &gt; &amp; &quot;
\* and &apos; by the character it stands for before it strips tags and
\* URI schemes.
C28_DecodesPredefinedEntities ==
    Sanitized => call.result[1] = DecodedThenStripped(call.input)

\* On an input without 'apos;' sanitizeText decodes as stated.
C28_DecodesAllButApos ==
    (Sanitized /\ ~Includes(call.input, <<"a", "p", "o", "s", ";">>)) =>
        call.result[1] = DecodedThenStripped(call.input)

-----------------------------------------------------------------------------
(* The explanation shown for a failed ingestion.                           *)

\* Two errors of the same failure: the same error, or two rejections of
\* the security scan.
SameFailure(e1, e2) ==
    \/ e1 = e2
    \/ /\ e1.name = "SecurityError" /\ e1.type = "XXE"
       /\ e2.name = "SecurityError" /\ e2.type = "XXE"

\* An error message is shown and it is that of the last rejection.
ShowsLastRejection ==
    /\ call.fn = "ingestions"
    /\ call.lastRejected # <<>>
    /\ error = <<getErrorMessage(call.lastRejected[1])>>

\* C29: the message shown for a failed ingestion is shown for no other
\* failure: no two distinct failures of the ingestion get the same
\* message.
C29_MessageTellsFailure ==
    ShowsLastRejection =>
        \A e \in IngestionFailures :
            getErrorMessage(e) = error[1] => SameFailure(e, call.lastRejected[1])

\* Apart from the two failures of the data check, no two distinct
\* failures get the same message.
C29_TellsAllButDataCheck ==
    (ShowsLastRejection
       /\ call.lastRejected[1].message
              \notin {MsgTooManyPoints, MsgTooManyWaypoints}) =>
        \A e \in IngestionFailures :
            getErrorMessage(e) = error[1] => SameFailure(e, call.lastRejected[1])

-----------------------------------------------------------------------------
(* The state a successful load leaves.                                     *)

\* The section with the download buttons is rendered.
DownloadOffered == gpxTrack # <<>> /\ numSegments > 1

\* A track is displayed with no boundary, one segment and no download
\* section.
FreshlyLoaded ==
    /\ gpxTrack # <<>>
    /\ boundaries = <<>>
    /\ numSegments = 1
    /\ ~DownloadOffered

\* C30: immediately after any successful file load the boundary list of
\* the App is empty, the segment count is 1 and the download section is
\* not offered, whatever boundaries there were before the load.
C30_LoadResetsSegments ==
    [][ParseResolved => FreshlyLoaded']_vars

\* A load has resolved over boundaries: the chart, which was displayed
\* before the load, still holds them, and the App holds none.
C30_Witness ==
    /\ FreshlyLoaded
    /\ chartBoundaries # <<>>
    /\ isLoading = FALSE

=============================================================================
